---- MODULE Spec2Model ----
(***************************************************************************)
(* Model of the EUDI Nexus reference crawler: the iterative crawl          *)
(* controller of scripts/download-specs.js (main, findMissingSpecs,        *)
(* findOidfUrl, downloadOidfSpecs, downloadIetfRfcs, runExtractReferences) *)
(* and the graph assembly of the reference extractor (extractReferences,   *)
(* normalizeDocId, filenameToDocId, ensureNode, ensureExternalNode).       *)
(*                                                                         *)
(* A JavaScript string is modelled as a sequence of one-character strings, *)
(* so that the regular expressions and conversions of the code are         *)
(* computed character by character.  null (and the empty string, which the *)
(* code's truthiness tests treat alike) is the empty sequence.             *)
(***************************************************************************)
EXTENDS Integers, Sequences, FiniteSets, TLC

\* ------------------------------------------------------------------------
\* Characters and strings
\* ------------------------------------------------------------------------

Null == <<>>

DigitChars == <<"0", "1", "2", "3", "4", "5", "6", "7", "8", "9">>

UpperChars ==
  <<"A", "B", "C", "D", "E", "F", "G", "H", "I", "J", "K", "L", "M",
    "N", "O", "P", "Q", "R", "S", "T", "U", "V", "W", "X", "Y", "Z">>

LowerChars ==
  <<"a", "b", "c", "d", "e", "f", "g", "h", "i", "j", "k", "l", "m",
    "n", "o", "p", "q", "r", "s", "t", "u", "v", "w", "x", "y", "z">>

\* The characters the modelled strings use, in ascending UTF-16 order.
CodeOrder ==
  <<" ", "-", ".", "/">> \o DigitChars \o UpperChars \o <<"_">> \o LowerChars

Range(s) == {s[k] : k \in 1..Len(s)}

IndexOf(s, c) == IF c \in Range(s) THEN CHOOSE k \in 1..Len(s) : s[k] = c ELSE 0

Min(S) == CHOOSE x \in S : \A y \in S : x <= y

IsDigit(c) == c \in Range(DigitChars)

IsSpace(c) == c = " "

\* \w of a JavaScript regular expression
IsWord(c) == c \in Range(DigitChars) \cup Range(UpperChars) \cup Range(LowerChars) \cup {"_"}

ToUpper(c) == IF c \in Range(LowerChars) THEN UpperChars[IndexOf(LowerChars, c)] ELSE c

RECURSIVE toUpperCase(_)
toUpperCase(s) == IF s = <<>> THEN <<>> ELSE <<ToUpper(Head(s))>> \o toUpperCase(Tail(s))

Ord(c) == IndexOf(CodeOrder, c)

\* a < b in the order of Array.prototype.sort() without a comparator
RECURSIVE StrLess(_, _)
StrLess(a, b) ==
  IF b = <<>> THEN FALSE
  ELSE IF a = <<>> THEN TRUE
  ELSE IF Head(a) = Head(b) THEN StrLess(Tail(a), Tail(b))
  ELSE Ord(Head(a)) < Ord(Head(b))

\* the elements of a set of strings as a sorted array
RECURSIVE SortStrings(_)
SortStrings(S) ==
  IF S = {} THEN <<>>
  ELSE LET m == CHOOSE x \in S : \A y \in S \ {x} : StrLess(x, y)
       IN  <<m>> \o SortStrings(S \ {m})

\* s.slice(from - 1, to) with 1-based inclusive bounds
Slice(s, from, to) == IF from > to THEN <<>> ELSE SubSeq(s, from, to)

\* number of consecutive digits of s starting at position p (greedy \d*)
RECURSIVE SpanDigits(_, _)
SpanDigits(s, p) == IF p <= Len(s) /\ IsDigit(s[p]) THEN 1 + SpanDigits(s, p + 1) ELSE 0

\* number of consecutive white-space characters of s starting at p (greedy \s*)
RECURSIVE SpanSpace(_, _)
SpanSpace(s, p) == IF p <= Len(s) /\ IsSpace(s[p]) THEN 1 + SpanSpace(s, p + 1) ELSE 0

\* the literal lit occurs in s at position p, letter case ignored (the /i flag)
MatchAtCI(s, p, lit) ==
  /\ p >= 1
  /\ p + Len(lit) - 1 <= Len(s)
  /\ \A k \in 1..Len(lit) : ToUpper(s[p + k - 1]) = ToUpper(lit[k])

endsWith(s, suffix) ==
  /\ Len(suffix) <= Len(s)
  /\ SubSeq(s, Len(s) - Len(suffix) + 1, Len(s)) = suffix

\* parseInt(s, 10) of a string of digits; NaN is -1
RECURSIVE parseInt(_)
parseInt(s) ==
  IF s = <<>> \/ ~IsDigit(s[1]) THEN -1
  ELSE LET n == SpanDigits(s, 1)
       IN  IF n = 1 THEN IndexOf(DigitChars, s[1]) - 1
           ELSE 10 * parseInt(SubSeq(s, 1, n - 1)) + (IndexOf(DigitChars, s[n]) - 1)

\* String(n) of a non-negative integer
RECURSIVE String(_)
String(n) ==
  IF n < 10 THEN <<DigitChars[n + 1]>>
  ELSE String(n \div 10) \o <<DigitChars[(n % 10) + 1]>>

\* path.basename(p)
basename(p) ==
  LET slashes == {k \in 1..Len(p) : p[k] = "/"}
  IN  IF slashes = {} THEN p
      ELSE LET last == CHOOSE k \in slashes : \A j \in slashes : j <= k
           IN  Slice(p, last + 1, Len(p))

\* s.split(' ')[0]
FirstToken(s) ==
  LET spaces == {k \in 1..Len(s) : s[k] = " "}
  IN  IF spaces = {} THEN s ELSE Slice(s, 1, Min(spaces) - 1)

\* ------------------------------------------------------------------------
\* Identifier normalisation (reference extractor)
\* ------------------------------------------------------------------------

\* a string literal, written character by character
S_EN == <<"E", "N">>
S_TS == <<"T", "S">>
S_TR == <<"T", "R">>
S_ES == <<"E", "S">>
S_EG == <<"E", "G">>
S_SR == <<"S", "R">>

\* the alternation (EN|TS|TR|ES|EG|SR) at position p, letter case ignored
DocTypeAt(s, p) == \E t \in {S_EN, S_TS, S_TR, S_ES, S_EG, S_SR} : MatchAtCI(s, p, t)

\* where the group after the one that starts at p begins: \s* is skipped
AfterSpace(s, p) == p + SpanSpace(s, p)

\* /(EN|TS|TR|ES|EG|SR)\s*(\d{3})\s*(\d{3})(?:-(\d+))?/i matches s at position p
DocIdMatchAt(s, p) ==
  /\ DocTypeAt(s, p)
  /\ SpanDigits(s, AfterSpace(s, p + 2)) >= 3
  /\ SpanDigits(s, AfterSpace(s, AfterSpace(s, p + 2) + 3)) >= 3

\* a variant of PartSuffix that keeps the digits of the part as they are written
PartSuffix_AsWritten(s, e) ==
  IF e <= Len(s) /\ s[e] = "-" /\ SpanDigits(s, e + 1) >= 1
  THEN <<"-">> \o Slice(s, e + 1, e + SpanDigits(s, e + 1))
  ELSE <<>>

\* match[4] ? `-${parseInt(match[4], 10)}` : '' for the group (?:-(\d+))? at position e
PartSuffix(s, e) ==
  IF e <= Len(s) /\ s[e] = "-" /\ SpanDigits(s, e + 1) >= 1
  THEN <<"-">> \o String(parseInt(Slice(s, e + 1, e + SpanDigits(s, e + 1))))
  ELSE <<>>

\* `${type} ${num1} ${num2}${part}` for a match with its groups at p, q and r
DocIdOf(s, p, q, r) ==
  toUpperCase(Slice(s, p, p + 1)) \o <<" ">> \o Slice(s, q, q + 2) \o <<" ">>
    \o Slice(s, r, r + 2) \o PartSuffix(s, r + 3)

DocIdFromGroup(s, p, q) == DocIdOf(s, p, q, AfterSpace(s, q + 3))

\* the identifier of the match that starts at p
DocIdAt(s, p) == DocIdFromGroup(s, p, AfterSpace(s, p + 2))

\* the first match of the expression, null when there is none
FirstDocId(s, starts) == IF starts = {} THEN Null ELSE DocIdAt(s, Min(starts))

normalizeDocId(ref) ==
  IF ref = Null THEN Null
  ELSE FirstDocId(ref, {p \in 1..Len(ref) : DocIdMatchAt(ref, p)})

\* a variant of SplitNumber that reads eight and nine digits as it reads six
SplitNumber_NoPart(type, num) ==
  IF Len(num) = 6 \/ Len(num) = 8 \/ Len(num) = 9
  THEN type \o <<" ">> \o Slice(num, 1, 3) \o <<" ">> \o Slice(num, 4, 6)
  ELSE type \o <<" ">> \o num

\* the conversion of the digit group num of a file name
SplitNumber(type, num) ==
  IF Len(num) = 6
  THEN type \o <<" ">> \o Slice(num, 1, 3) \o <<" ">> \o Slice(num, 4, 6)
  ELSE IF Len(num) = 8 \/ Len(num) = 9
  THEN type \o <<" ">> \o Slice(num, 1, 3) \o <<" ">> \o Slice(num, 4, 6)
            \o <<"-">> \o String(parseInt(Slice(num, 7, Len(num))))
  ELSE type \o <<" ">> \o num

\* /^(en|ts|tr|es|eg|sr)_(\d+)(?:v\d+)?/i
filenameToDocId(filename) ==
  IF /\ DocTypeAt(filename, 1)
     /\ Len(filename) >= 3
     /\ filename[3] = "_"
     /\ SpanDigits(filename, 4) >= 1
  THEN SplitNumber(toUpperCase(Slice(filename, 1, 2)),
                   Slice(filename, 4, 3 + SpanDigits(filename, 4)))
  ELSE Null

\* number of consecutive characters of the class [\s_-] starting at p
RECURSIVE SpanSep(_, _)
SpanSep(s, p) ==
  IF p <= Len(s) /\ s[p] \in {" ", "_", "-"} THEN 1 + SpanSep(s, p + 1) ELSE 0

AfterSep(s, p) == p + SpanSep(s, p)

\* /ESI-(\d{3})(\d{4,5})-?(\d)?/i matches s at position p
EsiMatchAt(s, p) == MatchAtCI(s, p, <<"E", "S", "I", "-">>) /\ SpanDigits(s, p + 4) >= 7

\* match[3] ? `-${parseInt(match[3], 10)}` : '' for the groups -?(\d)? at position e
EsiPart(s, e) ==
  IF e <= Len(s) /\ s[e] = "-"
  THEN (IF e + 1 <= Len(s) /\ IsDigit(s[e + 1])
        THEN <<"-">> \o String(parseInt(<<s[e + 1]>>)) ELSE <<>>)
  ELSE (IF e <= Len(s) /\ IsDigit(s[e])
        THEN <<"-">> \o String(parseInt(<<s[e]>>)) ELSE <<>>)

\* `TS ${num1} ${num2}${part}` of the ESI match at p; (\d{4,5}) takes five digits
\* when there are five
EsiDocIdAt(s, p) ==
  S_TS \o <<" ">> \o Slice(s, p + 4, p + 6) \o <<" ">> \o Slice(s, p + 7, p + 9)
       \o EsiPart(s, p + 7 + (IF SpanDigits(s, p + 4) >= 8 THEN 5 ELSE 4))

\* /(TS|TR|EN|ES)[\s_-]*(\d{3})[\s_-]*(\d{3})(?:[\s_-]*(\d+))?/i matches s at p
DraftNameMatchAt(s, p) ==
  /\ \E t \in {S_TS, S_TR, S_EN, S_ES} : MatchAtCI(s, p, t)
  /\ SpanDigits(s, AfterSep(s, p + 2)) >= 3
  /\ SpanDigits(s, AfterSep(s, AfterSep(s, p + 2) + 3)) >= 3

\* match2[4] ? `-${parseInt(match2[4], 10)}` : '' for the digits at d
DraftPart(s, d) ==
  IF SpanDigits(s, d) >= 1
  THEN <<"-">> \o String(parseInt(Slice(s, d, d + SpanDigits(s, d) - 1)))
  ELSE <<>>

DraftDocIdOf(s, p, q, r) ==
  toUpperCase(Slice(s, p, p + 1)) \o <<" ">> \o Slice(s, q, q + 2) \o <<" ">>
    \o Slice(s, r, r + 2) \o DraftPart(s, AfterSep(s, r + 3))

DraftDocIdFromGroup(s, p, q) == DraftDocIdOf(s, p, q, AfterSep(s, q + 3))

DraftDocIdAt(s, p) == DraftDocIdFromGroup(s, p, AfterSep(s, p + 2))

DocxDocIdFrom(s, esi, alt) ==
  IF esi # {} THEN EsiDocIdAt(s, Min(esi))
  ELSE IF alt # {} THEN DraftDocIdAt(s, Min(alt))
  ELSE Null

docxFilenameToDocId(filename) ==
  DocxDocIdFrom(filename,
                {p \in 1..Len(filename) : EsiMatchAt(filename, p)},
                {p \in 1..Len(filename) : DraftNameMatchAt(filename, p)})

\* ------------------------------------------------------------------------
\* Graph assembly (reference extractor)
\* ------------------------------------------------------------------------

S_pdf  == <<".", "p", "d", "f">>
S_docx == <<".", "d", "o", "c", "x">>
S_doc  == <<".", "d", "o", "c">>

\* a variant of findPdfFiles that returns the paths in descending order
findPdfFiles_Descending(fs) ==
  LET sorted == SortStrings({f \in fs : endsWith(basename(f), S_pdf)})
  IN  [k \in 1..Len(sorted) |-> sorted[Len(sorted) + 1 - k]]

\* the recursive directory walk returns the matching paths, sorted
findPdfFiles(fs) == SortStrings({f \in fs : endsWith(basename(f), S_pdf)})

findDocxFiles(fs) ==
  SortStrings({f \in fs : endsWith(basename(f), S_docx) \/ endsWith(basename(f), S_doc)})

\* the order of Object.values / Object.entries of a per-type record
RefTypes == <<"etsi", "ietf", "iso", "itu", "w3c", "oidf">>

externalTypes == <<"ietf", "iso", "itu", "w3c", "oidf">>

NoRefs == [t \in Range(RefTypes) |-> <<>>]

\* const graph = { nodes: new Map(), edges: [] } with the results of the pass
EmptyGraph == [nodes |-> <<>>, edges |-> <<>>, documents |-> <<>>, errors |-> <<>>]

\* graph.nodes is a Map: key is the key an entry was set under, and the
\* entries keep the order of insertion (the order of Array.from(values()))
has(g, id) == \E k \in 1..Len(g.nodes) : g.nodes[k].key = id

NodeAt(g, id) == CHOOSE k \in 1..Len(g.nodes) : g.nodes[k].key = id

get(g, id) == g.nodes[NodeAt(g, id)]

\* a variant of NewNode that fills id with what belongs in type
NewNode_IdFromType(id, source, path, isDraft) ==
  [key |-> id, id |-> FirstToken(id), type |-> FirstToken(id), source |-> source,
   path |-> path, referencesCount |-> 0, referencedByCount |-> 0, isDraft |-> isDraft]

\* graph.nodes.set(id, { id, type: id.split(' ')[0], source, path, ... })
NewNode(id, source, path, isDraft) ==
  [key |-> id, id |-> id, type |-> FirstToken(id), source |-> source, path |-> path,
   referencesCount |-> 0, referencedByCount |-> 0, isDraft |-> isDraft]

\* a variant of ensureNode that sets the node again when it is there already
ensureNode_Resets(g, docId, source) ==
  IF has(g, docId)
  THEN [g EXCEPT !.nodes[NodeAt(g, docId)] = NewNode(docId, source, Null, FALSE)]
  ELSE [g EXCEPT !.nodes = Append(@, NewNode(docId, source, Null, FALSE))]

\* function ensureNode(graph, docId, source = 'etsi')
ensureNode(g, docId, source) ==
  IF has(g, docId) THEN g
  ELSE [g EXCEPT !.nodes = Append(@, NewNode(docId, source, Null, FALSE))]

ensureExternalNode(g, ref, source) ==
  IF has(g, ref) THEN g
  ELSE [g EXCEPT !.nodes = Append(@, NewNode(ref, source, Null, FALSE))]

\* graph.nodes.get(to).referencedByCount++
CountInbound(g, to) == [g EXCEPT !.nodes[NodeAt(g, to)].referencedByCount = @ + 1]

\* graph.edges.push({ from, to, type, source })
Push(g, from, to, type, source) ==
  [g EXCEPT !.edges = Append(@, [from |-> from, to |-> to, type |-> type, source |-> source])]

\* an edge to a primary-standard target: push, ensureNode, count
PushEtsiEdge(g, from, to, type) ==
  CountInbound(ensureNode(Push(g, from, to, type, "etsi"), to, "etsi"), to)

\* an edge to an external target: push, ensureExternalNode, count
PushExternalEdge(g, from, to, type, extType) ==
  CountInbound(ensureExternalNode(Push(g, from, to, type, extType), to, extType), to)

\* a variant of EtsiEdge without the test targetId !== docId
EtsiEdge_AnyTarget(g, docId, targetId, type) ==
  IF targetId # Null THEN PushEtsiEdge(g, docId, targetId, type) ELSE g

\* if (targetId && targetId !== docId) { ... }
EtsiEdge(g, docId, targetId, type) ==
  IF targetId # Null /\ targetId # docId THEN PushEtsiEdge(g, docId, targetId, type) ELSE g

\* for (const ref of refs.<type>.etsi) { ... }
RECURSIVE AddEtsiEdges(_, _, _, _)
AddEtsiEdges(g, docId, refs, type) ==
  IF refs = <<>> THEN g
  ELSE AddEtsiEdges(EtsiEdge(g, docId, normalizeDocId(Head(refs)), type), docId, Tail(refs), type)

\* for (const ref of refs.<type>[extType] || []) { ... }
RECURSIVE AddExternalEdges(_, _, _, _, _)
AddExternalEdges(g, docId, refs, type, extType) ==
  IF refs = <<>> THEN g
  ELSE AddExternalEdges(PushExternalEdge(g, docId, Head(refs), type, extType),
                        docId, Tail(refs), type, extType)

\* for (const extType of externalTypes) { normative ...; informative ... }
RECURSIVE AddExternalTypes(_, _, _, _)
AddExternalTypes(g, docId, refs, types) ==
  IF types = <<>> THEN g
  ELSE AddExternalTypes(
         AddExternalEdges(
           AddExternalEdges(g, docId, refs.normative[Head(types)], "normative", Head(types)),
           docId, refs.informative[Head(types)], "informative", Head(types)),
         docId, refs, Tail(types))

RECURSIVE SumLen(_, _)
SumLen(obj, types) ==
  IF types = <<>> THEN 0 ELSE Len(obj[Head(types)]) + SumLen(obj, Tail(types))

countRefs(obj) == SumLen(obj, RefTypes)

\* the edges, the counts and the results entry of one document (both loops)
AddDocument(g, docId, file, refs, isDraft) ==
  [AddExternalTypes(
     AddEtsiEdges(
       AddEtsiEdges([g EXCEPT !.nodes[NodeAt(g, docId)].referencesCount = countRefs(refs.all)],
                    docId, refs.normative["etsi"], "normative"),
       docId, refs.informative["etsi"], "informative"),
     docId, refs, externalTypes)
   EXCEPT !.documents = Append(@, [file |-> basename(file), docId |-> docId,
                                   references |-> refs, isDraft |-> isDraft])]

\* if (!graph.nodes.has(docId)) graph.nodes.set(docId, { ..., path: pdfPath, ... })
PdfSourceNode(g, docId, pdfPath) ==
  IF has(g, docId) THEN g
  ELSE [g EXCEPT !.nodes = Append(@, NewNode(docId, "etsi", pdfPath, FALSE))]

\* if (docId) { ... } else WARN, for a published document
AddPdf(g, docId, pdfPath, refs) ==
  IF docId = Null THEN g
  ELSE AddDocument(PdfSourceNode(g, docId, pdfPath), docId, pdfPath, refs, FALSE)

\* a variant of ProcessPdf whose catch block records nothing
ProcessPdf_Unrecorded(g, pdfPath, refs) ==
  IF ~refs.ok
  THEN g
  ELSE AddPdf(g, normalizeDocId(filenameToDocId(basename(pdfPath))), pdfPath, refs)

\* the body of the loop over pdfFiles; refs is the result of extractReferencesFromPdf,
\* with refs.ok false when the text of the file cannot be extracted (it throws)
ProcessPdf(g, pdfPath, refs) ==
  IF ~refs.ok
  THEN [g EXCEPT !.errors = Append(@, [file |-> basename(pdfPath), isDraft |-> FALSE])]
  ELSE AddPdf(g, normalizeDocId(filenameToDocId(basename(pdfPath))), pdfPath, refs)

\* the draft takes over a node that has no path or the path of a draft
UpgradeToDraft(g, k, docxPath) ==
  IF g.nodes[k].path = Null \/ endsWith(g.nodes[k].path, S_docx)
  THEN [g EXCEPT !.nodes[k].isDraft = TRUE, !.nodes[k].path = docxPath]
  ELSE g

\* the source node of a draft: a new node marked as draft, or the existing one
DocxSourceNode(g, docId, docxPath) ==
  IF ~has(g, docId)
  THEN [g EXCEPT !.nodes = Append(@, NewNode(docId, "etsi", docxPath, TRUE))]
  ELSE UpgradeToDraft(g, NodeAt(g, docId), docxPath)

AddDocx(g, docId, docxPath, refs) ==
  IF docId = Null THEN g
  ELSE AddDocument(DocxSourceNode(g, docId, docxPath), docId, docxPath, refs, TRUE)

\* normalizeDocId(filenameToDocId(filename)) || docxFilenameToDocId(filename)
OrElse(byName, filename) == IF byName # Null THEN byName ELSE docxFilenameToDocId(filename)

\* the body of the loop over docxFiles (drafts)
ProcessDocx(g, docxPath, refs) ==
  IF ~refs.ok
  THEN [g EXCEPT !.errors = Append(@, [file |-> basename(docxPath), isDraft |-> TRUE])]
  ELSE AddDocx(g, OrElse(normalizeDocId(filenameToDocId(basename(docxPath))), basename(docxPath)),
               docxPath, refs)

RECURSIVE ProcessPdfs(_, _, _)
ProcessPdfs(g, paths, text) ==
  IF paths = <<>> THEN g
  ELSE ProcessPdfs(ProcessPdf(g, Head(paths), text[Head(paths)]), Tail(paths), text)

RECURSIVE ProcessDocxs(_, _, _)
ProcessDocxs(g, paths, text) ==
  IF paths = <<>> THEN g
  ELSE ProcessDocxs(ProcessDocx(g, Head(paths), text[Head(paths)]), Tail(paths), text)

\* extractReferences(): the graph written to references.json for the files fs,
\* where text[f] is what the extraction of file f returns
extractReferences(fs, text, INCLUDE_DRAFTS) ==
  LET pdfFiles  == findPdfFiles(fs)
      docxFiles == IF INCLUDE_DRAFTS THEN findDocxFiles(fs) ELSE <<>>
  IN  ProcessDocxs(ProcessPdfs(EmptyGraph, pdfFiles, text), docxFiles, text)

\* ------------------------------------------------------------------------
\* Frontier computation (crawl controller)
\* ------------------------------------------------------------------------

\* the registry of specification identifiers and their source locations
\* (a location is kept as a string of one token: the code only passes it on)
OIDF_SPEC_URLS ==
  {
    [key |-> <<"O", "p", "e", "n", "I", "D", "4", "V", "P">>,
     url |-> <<"openid-4-verifiable-presentations-1_0">>],
    [key |-> <<"O", "p", "e", "n", "I", "D", "4", "V", "C", "I">>,
     url |-> <<"openid-4-verifiable-credential-issuance-1_0">>],
    [key |-> <<"O", "p", "e", "n", "I", "D", "4", "V", "C", "-", "H", "A", "I", "P">>,
     url |-> <<"openid4vc-high-assurance-interoperability-profile-1_0">>],
    [key |-> <<"H", "A", "I", "P">>,
     url |-> <<"openid4vc-high-assurance-interoperability-profile-1_0">>],
    [key |-> <<"O", "p", "e", "n", "I", "D", " ", "C", "o", "n", "n", "e", "c", "t">>,
     url |-> <<"openid-connect-core-1_0">>],
    [key |-> <<"O", "p", "e", "n", "I", "D", " ", "C", "o", "n", "n", "e", "c", "t", " ", "C", "o", "r", "e">>,
     url |-> <<"openid-connect-core-1_0">>],
    [key |-> <<"O", "p", "e", "n", "I", "D", " ", "C", "o", "n", "n", "e", "c", "t", " ", "D", "i", "s", "c", "o", "v", "e", "r", "y">>,
     url |-> <<"openid-connect-discovery-1_0">>],
    [key |-> <<"O", "p", "e", "n", "I", "D", " ", "C", "o", "n", "n", "e", "c", "t", " ", "D", "y", "n", "a", "m", "i", "c", " ", "C", "l", "i", "e", "n", "t", " ", "R", "e", "g", "i", "s", "t", "r", "a", "t", "i", "o", "n">>,
     url |-> <<"openid-connect-registration-1_0">>],
    [key |-> <<"O", "p", "e", "n", "I", "D", " ", "F", "e", "d", "e", "r", "a", "t", "i", "o", "n">>,
     url |-> <<"openid-federation-1_0">>],
    [key |-> <<"S", "D", "-", "J", "W", "T">>,
     url |-> <<"draft-ietf-oauth-selective-disclosure-jwt-13">>],
    [key |-> <<"S", "D", "-", "J", "W", "T", " ", "V", "C">>,
     url |-> <<"draft-ietf-oauth-sd-jwt-vc-05">>],
    [key |-> <<"O", "A", "u", "t", "h", " ", "2", ".", "0", " ", "D", "P", "o", "P">>,
     url |-> <<"rfc9449">>],
    [key |-> <<"O", "A", "u", "t", "h", " ", "2", ".", "0", " ", "P", "A", "R">>,
     url |-> <<"rfc9126">>],
    [key |-> <<"O", "A", "u", "t", "h", " ", "2", ".", "0", " ", "R", "A", "R">>,
     url |-> <<"rfc9396">>],
    [key |-> <<"O", "p", "e", "n", "I", "D", "4", "V", "C">>,
     url |-> <<"openid.net/specs/">>]
  }

\* OIDF_SPEC_URLS[key], null when the registry has no such key
UrlOf(key) ==
  IF \E e \in OIDF_SPEC_URLS : e.key = key
  THEN (CHOOSE e \in OIDF_SPEC_URLS : e.key = key).url
  ELSE Null

\* s.replace(/-/g, ' ')
RECURSIVE DashesToSpaces(_)
DashesToSpaces(s) ==
  IF s = <<>> THEN <<>>
  ELSE <<IF Head(s) = "-" THEN " " ELSE Head(s)>> \o DashesToSpaces(Tail(s))

\* s.replace(/\s+/g, rep): every maximal run of white space becomes rep
RECURSIVE ReplaceSpaceRuns(_, _)
ReplaceSpaceRuns(s, rep) ==
  IF s = <<>> THEN <<>>
  ELSE IF IsSpace(Head(s))
  THEN rep \o ReplaceSpaceRuns(Slice(s, SpanSpace(s, 1) + 1, Len(s)), rep)
  ELSE <<Head(s)>> \o ReplaceSpaceRuns(Tail(s), rep)

\* s.replace(/[^\w-]/g, '')
RECURSIVE KeepWordAndDash(_)
KeepWordAndDash(s) ==
  IF s = <<>> THEN <<>>
  ELSE (IF IsWord(Head(s)) \/ Head(s) = "-" THEN <<Head(s)>> ELSE <<>>) \o KeepWordAndDash(Tail(s))

\* the literals of words, separated by \s*, match s at position p (flag /i)
RECURSIVE WordsAt(_, _, _)
WordsAt(s, p, words) ==
  IF words = <<>> THEN TRUE
  ELSE /\ MatchAtCI(s, p, Head(words))
       /\ LET e == p + Len(Head(words))
          IN  IF Tail(words) = <<>> THEN TRUE
              ELSE WordsAt(s, e + SpanSpace(s, e), Tail(words))

\* /w1\s*w2.../i.test(s)
TestWords(s, words) == \E p \in 1..Len(s) : WordsAt(s, p, words)

findOidfUrl(specId) ==
  IF UrlOf(specId) # Null THEN UrlOf(specId)
  ELSE IF UrlOf(DashesToSpaces(specId)) # Null THEN UrlOf(DashesToSpaces(specId))
  ELSE IF UrlOf(ReplaceSpaceRuns(specId, <<"-">>)) # Null THEN UrlOf(ReplaceSpaceRuns(specId, <<"-">>))
  ELSE IF TestWords(specId, <<<<"O", "p", "e", "n", "I", "D", "4", "V", "P">>>>) THEN UrlOf(<<"O", "p", "e", "n", "I", "D", "4", "V", "P">>)
  ELSE IF TestWords(specId, <<<<"O", "p", "e", "n", "I", "D", "4", "V", "C", "I">>>>) THEN UrlOf(<<"O", "p", "e", "n", "I", "D", "4", "V", "C", "I">>)
  ELSE IF TestWords(specId, <<<<"H", "A", "I", "P">>>>) THEN UrlOf(<<"O", "p", "e", "n", "I", "D", "4", "V", "C", "-", "H", "A", "I", "P">>)
  ELSE IF TestWords(specId, <<<<"O", "p", "e", "n", "I", "D">>, <<"C", "o", "n", "n", "e", "c", "t">>, <<"C", "o", "r", "e">>>>)
       THEN UrlOf(<<"O", "p", "e", "n", "I", "D", " ", "C", "o", "n", "n", "e", "c", "t", " ", "C", "o", "r", "e">>)
  ELSE IF TestWords(specId, <<<<"O", "p", "e", "n", "I", "D">>, <<"C", "o", "n", "n", "e", "c", "t">>, <<"D", "i", "s", "c", "o", "v", "e", "r", "y">>>>)
       THEN UrlOf(<<"O", "p", "e", "n", "I", "D", " ", "C", "o", "n", "n", "e", "c", "t", " ", "D", "i", "s", "c", "o", "v", "e", "r", "y">>)
  ELSE IF TestWords(specId, <<<<"O", "p", "e", "n", "I", "D">>, <<"C", "o", "n", "n", "e", "c", "t">>>>)
       THEN UrlOf(<<"O", "p", "e", "n", "I", "D", " ", "C", "o", "n", "n", "e", "c", "t">>)
  ELSE IF TestWords(specId, <<<<"O", "p", "e", "n", "I", "D">>, <<"F", "e", "d", "e", "r", "a", "t", "i", "o", "n">>>>)
       THEN UrlOf(<<"O", "p", "e", "n", "I", "D", " ", "F", "e", "d", "e", "r", "a", "t", "i", "o", "n">>)
  ELSE IF TestWords(specId, <<<<"S", "D", "-", "J", "W", "T">>, <<"V", "C">>>>) THEN UrlOf(<<"S", "D", "-", "J", "W", "T", " ", "V", "C">>)
  ELSE IF TestWords(specId, <<<<"S", "D", "-", "J", "W", "T">>>>) THEN UrlOf(<<"S", "D", "-", "J", "W", "T">>)
  ELSE Null

S_RFC == <<"R", "F", "C">>

\* /RFC\s*(\d+)/i matches s at position p
RfcMatchAt(s, p) ==
  MatchAtCI(s, p, S_RFC) /\ SpanDigits(s, p + 3 + SpanSpace(s, p + 3)) >= 1

\* the captured digits of node.id.match(/RFC\s*(\d+)/i), null without a match
RfcDigits(id) ==
  LET starts == {p \in 1..Len(id) : RfcMatchAt(id, p)}
  IN  IF starts = {} THEN Null
      ELSE LET q == Min(starts) + 3 + SpanSpace(id, Min(starts) + 3)
           IN  Slice(id, q, q + SpanDigits(id, q) - 1)

\* a variant of MissingOidfOf without the test of node.source
MissingOidfOf_AnySource(node) ==
  IF node.path = Null /\ findOidfUrl(node.id) # Null
  THEN <<[id |-> node.id, url |-> findOidfUrl(node.id)]>>
  ELSE <<>>

\* the entries one node adds to missing.oidf and to missing.ietf
MissingOidfOf(node) ==
  IF node.source = "oidf" /\ node.path = Null /\ findOidfUrl(node.id) # Null
  THEN <<[id |-> node.id, url |-> findOidfUrl(node.id)]>>
  ELSE <<>>

\* a variant of MissingIetfOf that takes the RFCs that have a path
MissingIetfOf_WithPath(node) ==
  IF node.source = "ietf" /\ node.path # Null /\ RfcDigits(node.id) # Null
  THEN <<[id |-> node.id, number |-> String(parseInt(RfcDigits(node.id)))]>>
  ELSE <<>>

MissingIetfOf(node) ==
  IF node.source = "ietf" /\ node.path = Null /\ RfcDigits(node.id) # Null
  THEN <<[id |-> node.id, number |-> String(parseInt(RfcDigits(node.id)))]>>
  ELSE <<>>

RECURSIVE MissingFrom(_, _)
MissingFrom(nodes, missing) ==
  IF nodes = <<>> THEN missing
  ELSE MissingFrom(Tail(nodes),
                   [oidf |-> missing.oidf \o MissingOidfOf(Head(nodes)),
                    ietf |-> missing.ietf \o MissingIetfOf(Head(nodes))])

findMissingSpecs(g) == MissingFrom(g.nodes, [oidf |-> <<>>, ietf |-> <<>>])

\* the file a foundation-profile item is stored in, under OIDF_PATH
OidfFilePath(spec) ==
  <<"O", "I", "D", "F", "/">> \o KeepWordAndDash(ReplaceSpaceRuns(spec.id, <<"_">>)) \o <<".", "h", "t", "m", "l">>

\* the file an RFC item is stored in, under IETF_PATH
IetfFilePath(rfc) == <<"I", "E", "T", "F", "/", "r", "f", "c">> \o rfc.number \o <<".", "t", "x", "t">>

\* ------------------------------------------------------------------------
\* Corpora: the documents under downloads/specs when the crawler starts, and
\* what the extraction of each returns
\* ------------------------------------------------------------------------

\* number of RFCs the document of the corpus "many" cites
NumRfc == 12

\* largest value of --depth that is explored
MaxDepthBound == 2

\* largest number of acquisitions that succeed in one run
MaxAcquired == 2

With(t, refs) == [NoRefs EXCEPT ![t] = refs]

\* the result of extractReferencesFromPdf for a document with the given
\* normative and informative references
Extracted(normative, informative) ==
  [ok |-> TRUE, normative |-> normative, informative |-> informative,
   all |-> [t \in Range(RefTypes) |->
              SortStrings(Range(normative[t]) \cup Range(informative[t]))]]

P_A == <<"E", "N", "/", "e", "n", "_", "3", "1", "9", "4", "0", "1", "v", "0", "2", "0", "3", "0", "1", "p", ".", "p", "d", "f">>
P_B == <<"E", "N", "/", "e", "n", "_", "3", "1", "9", "4", "0", "3", "v", "0", "2", "0", "2", "0", "2", "p", ".", "p", "d", "f">>
P_C == <<"T", "S", "/", "t", "s", "_", "1", "1", "9", "4", "7", "2", "0", "1", "v", "0", "1", "0", "1", "0", "1", "p", ".", "p", "d", "f">>
P_D == <<"T", "S", "/", "t", "s", "_", "1", "1", "9", "1", "0", "1", "v", "0", "1", "0", "1", "0", "1", "p", ".", "p", "d", "f">>

Id_A == <<"E", "N", " ", "3", "1", "9", " ", "4", "0", "1">>
Id_B == <<"E", "N", " ", "3", "1", "9", " ", "4", "0", "3">>
Id_R == <<"R", "F", "C", " ", "5", "2", "8", "0">>
Id_R0822 == <<"R", "F", "C", " ", "0", "8", "2", "2">>
Id_R822 == <<"R", "F", "C", " ", "8", "2", "2">>
Id_VP == <<"O", "p", "e", "n", "I", "D", "4", "V", "P">>
Id_SDJWTVC == <<"S", "D", "-", "J", "W", "T", " ", "V", "C">>
Id_ISO == <<"I", "S", "O", " ", "2", "7", "0", "0", "1">>
Id_ITU == <<"I", "T", "U", "-", "T", " ", "X", "5", "0", "9">>
Id_W3C == <<"W", "3", "C", " ", "S", "D", "-", "J", "W", "T">>
Id_E == <<"E", "N", " ", "3", "1", "9", " ", "4", "1", "1", "-", "1">>

ManyRfcs == [n \in 1..NumRfc |-> <<"R", "F", "C", " ">> \o String(7000 + n)]

Corpora == {"plain", "e2e", "mixed", "many"}

\* the documents of a corpus
CorpusFiles(c) ==
  IF c \in {"plain", "e2e"} THEN {P_A, P_B}
  ELSE IF c = "mixed" THEN {P_C}
  ELSE {P_D}

\* A cites B normatively; in "e2e" B cites RFC 5280 informatively, in "plain"
\* nothing; "mixed" cites two foundation profiles, an ISO standard and one RFC
\* in two spellings, and a primary standard, an ITU-T recommendation and a
\* W3C document that are not in the corpus; "many" cites NumRfc RFCs
CorpusText(c) ==
  IF c = "plain"
  THEN [f \in CorpusFiles(c) |->
          IF f = P_A THEN Extracted(With("etsi", <<Id_B>>), NoRefs)
          ELSE Extracted(NoRefs, NoRefs)]
  ELSE IF c = "e2e"
  THEN [f \in CorpusFiles(c) |->
          IF f = P_A THEN Extracted(With("etsi", <<Id_B>>), NoRefs)
          ELSE Extracted(NoRefs, With("ietf", <<Id_R>>))]
  ELSE IF c = "mixed"
  THEN [f \in CorpusFiles(c) |->
          Extracted([NoRefs EXCEPT !["oidf"] = <<Id_VP, Id_SDJWTVC>>, !["iso"] = <<Id_ISO>>,
                                    !["etsi"] = <<Id_E>>, !["itu"] = <<Id_ITU>>,
                                    !["w3c"] = <<Id_W3C>>],
                    With("ietf", <<Id_R0822, Id_R822>>))]
  ELSE [f \in CorpusFiles(c) |-> Extracted(With("ietf", ManyRfcs), NoRefs)]

\* ------------------------------------------------------------------------
\* The crawl controller: main() of the iterative reference crawler
\* ------------------------------------------------------------------------

VARIABLES
  corpus,         \* the documents the run starts from (a name of Corpora)
  MAX_DEPTH,      \* the value of --depth
  pc,             \* the controller's position
  depth,          \* let depth
  newSpecsFound,  \* let newSpecsFound
  files,          \* the paths that exist under downloads/specs
  refsData,       \* the graph of references.json as last written
  missingSpecs,   \* const missingSpecs of the current iteration
  idx,            \* position of the acquisition loop in its list (1-based)
  attempt,        \* let attempt of downloadIetfRfcs
  success,        \* let success of downloadIetfRfcs
  failCount,      \* let failCount of downloadIetfRfcs
  written,        \* observer: the paths written in the current iteration
  requested,      \* observer: the identifiers requested in the current iteration
  failedNow,      \* observer: the identifiers whose acquisition failed in the current iteration
  failedPrev,     \* observer: the same for the previous iteration
  streak,         \* observer: RFC items that failed in a row, up to the current one
  trips,          \* observer: the iterations in which the circuit breaker tripped
  passes          \* observer: the extraction passes that have ended with code 0

\* One run of the reference extractor on its own: extractReferences()
VARIABLES
  specs,          \* the paths under SPECS_PATH when the extractor runs
  content,        \* for each of them, what the text of the file holds (a name of Texts)
  graph,          \* const graph and const results of the run in progress
  pdfQueue,       \* the part of const pdfFiles that is still to be processed
  docxQueue,      \* the part of const docxFiles that is still to be processed
  phase,          \* the extractor's position
  includeDrafts,  \* const INCLUDE_DRAFTS: the flag --include-drafts
  snapshot,       \* observer: the graph the previous run ended with
  runs            \* observer: the number of runs that have ended

\* The derivation of canonical identifiers on its own: what the extractor
\* computes from the name of a stored file and from a citation
VARIABLES
  storedName,     \* const filename: the name of a stored file
  citation,       \* const ref: a citation of the same document as found in a text
  idByName,       \* normalizeDocId(filenameToDocId(filename)), once computed
  idByCitation,   \* normalizeDocId(ref), once computed
  derived         \* which of the two have been computed

VARIABLES
  graphNodes,     \* graph.nodes of the references.json that findMissingSpecs is given
  VERBOSE,        \* const VERBOSE: --verbose or -v was given
  missingFound,   \* the value findMissingSpecs returns
  consoleLog,     \* the identifiers findMissingSpecs has reported on the console
  frontierPc,     \* "Idle", "Matching" (a match of an OIDF pattern is at hand), "Read"
                  \* (graph read) or "Computed" (findMissingSpecs returned)
  rawMatch,       \* match[0] of a pattern of REF_PATTERNS.oidf, null when none is looked at
  emitted         \* the identifier extractAllRefs adds to refs.oidf for it

VARIABLES
  data,           \* the items of work_items.json, as scraped
  byEtsiNumber,   \* const byEtsiNumber of analyzeWorkItems: the values of the Map, in its order
  summary,        \* the content of esi_overview.json
  limit,          \* const limit of downloadLatestSpecs (null without --limit=)
  publishedOnly,  \* const publishedOnly
  itemsToProcess, \* const itemsToProcess
  cursor,         \* let i of the loop over itemsToProcess
  results,        \* const results: success, failed and noDownload
  portalPc        \* "Idle", "Scraped", "Analyzed", "Ready", "Downloading", "Saved" or "Exited"

vars ==
  <<corpus, MAX_DEPTH, pc, depth, newSpecsFound, files, refsData, missingSpecs,
    idx, attempt, success, failCount, written, requested, failedNow, failedPrev,
    streak, trips, passes, specs, content, graph, pdfQueue, docxQueue, phase, includeDrafts,
    snapshot, runs, storedName, citation, idByName, idByCitation, derived,
    graphNodes, VERBOSE, missingFound, consoleLog, frontierPc, rawMatch, emitted,
    data, byEtsiNumber, summary, limit, publishedOnly, itemsToProcess, cursor, results, portalPc>>

naming == <<storedName, citation, idByName, idByCitation, derived>>

frontier == <<graphNodes, VERBOSE, missingFound, consoleLog, frontierPc, rawMatch, emitted>>

portal == <<data, byEtsiNumber, summary, limit, publishedOnly, itemsToProcess, cursor, results, portalPc>>

assembly == <<specs, content, graph, pdfQueue, docxQueue, phase, includeDrafts, snapshot, runs>>

\* the extractor is not being looked at on its own
NoAssembly ==
  /\ specs = {}
  /\ content = <<>>
  /\ graph = EmptyGraph
  /\ pdfQueue = <<>>
  /\ docxQueue = <<>>
  /\ phase = "Idle"
  /\ includeDrafts = FALSE
  /\ snapshot = EmptyGraph
  /\ runs = 0

\* no identifier is being derived on its own
NoNaming ==
  /\ storedName = Null
  /\ citation = Null
  /\ idByName = Null
  /\ idByCitation = Null
  /\ derived = {}

\* findMissingSpecs is not being looked at on its own
NoFrontier ==
  /\ graphNodes = <<>>
  /\ VERBOSE = FALSE
  /\ missingFound = [oidf |-> <<>>, ietf |-> <<>>]
  /\ consoleLog = <<>>
  /\ frontierPc = "Idle"
  /\ rawMatch = Null
  /\ emitted = Null

\* an overview without items, and results without entries
NoSummary ==
  [statistics |-> [totalScraped |-> 0, uniqueDocuments |-> 0, activeWorkItems |-> 0,
                   publishedDocuments |-> 0],
   activeWorkItems |-> <<>>, publishedDocuments |-> <<>>]

NoResults == [success |-> <<>>, failed |-> <<>>, noDownload |-> <<>>]

\* the tools of the work programme are not being looked at
NoPortal ==
  /\ data = <<>>
  /\ byEtsiNumber = <<>>
  /\ summary = NoSummary
  /\ limit = Null
  /\ publishedOnly = FALSE
  /\ itemsToProcess = <<>>
  /\ cursor = 0
  /\ results = NoResults
  /\ portalPc = "Idle"

config == <<corpus, MAX_DEPTH>>
rfcLoop == <<idx, attempt, success, failCount, streak>>
observers == <<written, requested, failedNow, failedPrev>>

NoMissing == [oidf |-> <<>>, ietf |-> <<>>]

\* the number of acquisitions that have succeeded in the run
Acquired == Cardinality(files \ CorpusFiles(corpus))

\* a variant of Exists in which the check for an existing file is missing
Exists_Never(filepath) == FALSE

\* fs.access(filepath) succeeds
Exists(filepath) == filepath \in files

Init ==
  /\ corpus \in Corpora
  /\ MAX_DEPTH \in 1..MaxDepthBound
  /\ pc = "LoopTest"
  /\ depth = 0
  /\ newSpecsFound = TRUE
  /\ files = CorpusFiles(corpus)
  /\ refsData = EmptyGraph
  /\ missingSpecs = NoMissing
  /\ idx = 0
  /\ attempt = 0
  /\ success = FALSE
  /\ failCount = 0
  /\ written = {}
  /\ requested = {}
  /\ failedNow = {}
  /\ failedPrev = {}
  /\ streak = 0
  /\ trips = {}
  /\ passes = 0
  /\ NoAssembly
  /\ NoNaming
  /\ NoFrontier
  /\ NoPortal

\* a variant of LoopCondition that compares with <= and so allows one more iteration
LoopCondition_OneMore == newSpecsFound /\ depth <= MAX_DEPTH

\* a variant of LoopCondition that also ends the loop after a pass that wrote nothing
LoopCondition_NeedsNewContent == newSpecsFound /\ depth < MAX_DEPTH /\ (depth = 0 \/ written # {})

\* while (newSpecsFound && depth < MAX_DEPTH)
LoopCondition == newSpecsFound /\ depth < MAX_DEPTH

\* the test of the while loop: depth++ and the next iteration, or the loop ends
LoopTest ==
  /\ pc = "LoopTest"
  /\ IF LoopCondition
     THEN /\ depth' = depth + 1
          /\ pc' = "Extracting"
          /\ written' = {}
          /\ requested' = {}
          /\ failedPrev' = failedNow
          /\ failedNow' = {}
     ELSE /\ pc' = "FinalExtract"
          /\ UNCHANGED <<depth, observers>>
  /\ UNCHANGED <<config, assembly, naming, frontier, portal, passes, newSpecsFound, files, refsData, missingSpecs, rfcLoop, trips>>

\* The graph of each corpus as it is when the crawler starts, computed once.
InitialGraph ==
  [c \in Corpora |-> extractReferences(CorpusFiles(c), CorpusText(c), TRUE)]

\* what the child process extract-references.js --include-drafts writes:
\* extractReferences reads the directory only through its two walks, so while
\* they return what they returned at the start the graph is that of the start
runExtractReferences ==
  IF /\ findPdfFiles(files) = findPdfFiles(CorpusFiles(corpus))
     /\ findDocxFiles(files) = findDocxFiles(CorpusFiles(corpus))
  THEN InitialGraph[corpus]
  ELSE extractReferences(files, CorpusText(corpus), TRUE)

\* The frontier of each of these graphs, computed once.
InitialMissing == [c \in Corpora |-> findMissingSpecs(InitialGraph[c])]

\* const missingSpecs = findMissingSpecs(refsData.graph)
MissingNow ==
  IF refsData = InitialGraph[corpus]
  THEN InitialMissing[corpus]
  ELSE findMissingSpecs(refsData)

\* step 1 and 2 of an iteration: the child exits with code 0, references.json is read
ExtractOk ==
  /\ pc = "Extracting"
  /\ refsData' = runExtractReferences
  /\ passes' = passes + 1
  /\ pc' = "FrontierCheck"
  /\ UNCHANGED <<config, assembly, naming, frontier, portal, depth, newSpecsFound, files, missingSpecs, rfcLoop, observers, trips>>

\* the child exits with another code: the promise rejects, main() rejects and
\* main().catch(console.error) ends the run
ExtractFail ==
  /\ pc = "Extracting"
  /\ pc' = "Crashed"
  /\ UNCHANGED <<config, assembly, naming, frontier, portal, passes, depth, newSpecsFound, files, refsData, missingSpecs, rfcLoop, observers, trips>>

\* a variant of EnterIetf in which the count of the pass before is kept
EnterIetf_KeepsCount ==
  /\ pc' = "AcquiringIetf"
  /\ idx' = 1
  /\ attempt' = 1
  /\ success' = FALSE
  /\ failCount' = failCount
  /\ streak' = 0

\* let failCount = 0 and the first item of downloadIetfRfcs
EnterIetf ==
  /\ pc' = "AcquiringIetf"
  /\ idx' = 1
  /\ attempt' = 1
  /\ success' = FALSE
  /\ failCount' = 0
  /\ streak' = 0

\* a variant of FrontierCheck without newSpecsFound = false; break
FrontierCheck_NoBreak ==
  /\ pc = "FrontierCheck"
  /\ missingSpecs' = MissingNow
  /\ IF Len(missingSpecs'.oidf) > 0
     THEN /\ pc' = "AcquiringOidf"
          /\ idx' = 1
          /\ UNCHANGED <<attempt, success, failCount, streak>>
     ELSE IF Len(missingSpecs'.ietf) > 0
     THEN EnterIetf
     ELSE /\ pc' = "LoopTest"
          /\ UNCHANGED rfcLoop
  /\ UNCHANGED <<config, assembly, naming, frontier, portal, passes, depth, newSpecsFound, files, refsData, observers, trips>>

\* step 3: findMissingSpecs and the test for an empty frontier
FrontierCheck ==
  /\ pc = "FrontierCheck"
  /\ missingSpecs' = MissingNow
  /\ IF Len(missingSpecs'.oidf) = 0 /\ Len(missingSpecs'.ietf) = 0
     THEN /\ newSpecsFound' = FALSE
          /\ pc' = "FinalExtract"
          /\ UNCHANGED rfcLoop
     ELSE /\ UNCHANGED newSpecsFound
          /\ IF Len(missingSpecs'.oidf) > 0
             THEN /\ pc' = "AcquiringOidf"
                  /\ idx' = 1
                  /\ UNCHANGED <<attempt, success, failCount, streak>>
             ELSE EnterIetf
  /\ UNCHANGED <<config, assembly, naming, frontier, portal, passes, depth, files, refsData, observers, trips>>

\* the end of one turn of the loop of downloadOidfSpecs: the next item, or
\* step 5 of the iteration, or the end of the iteration
OidfAdvance ==
  IF idx < Len(missingSpecs.oidf)
  THEN /\ idx' = idx + 1
       /\ UNCHANGED <<pc, attempt, success, failCount, streak>>
  ELSE IF Len(missingSpecs.ietf) > 0
  THEN EnterIetf
  ELSE /\ pc' = "LoopTest"
       /\ UNCHANGED rfcLoop

\* the file of the item exists: continue
OidfSkip ==
  /\ pc = "AcquiringOidf"
  /\ Exists(OidfFilePath(missingSpecs.oidf[idx]))
  /\ OidfAdvance
  /\ UNCHANGED <<config, assembly, naming, frontier, portal, passes, depth, newSpecsFound, files, refsData, missingSpecs, observers, trips>>

\* fetch answers ok and the file is written
OidfFetchOk ==
  /\ pc = "AcquiringOidf"
  /\ ~Exists(OidfFilePath(missingSpecs.oidf[idx]))
  /\ Acquired < MaxAcquired
  /\ files' = files \cup {OidfFilePath(missingSpecs.oidf[idx])}
  /\ written' = written \cup {OidfFilePath(missingSpecs.oidf[idx])}
  /\ requested' = requested \cup {missingSpecs.oidf[idx].id}
  /\ OidfAdvance
  /\ UNCHANGED <<config, assembly, naming, frontier, portal, passes, depth, newSpecsFound, refsData, missingSpecs, failedNow, failedPrev, trips>>

\* a variant of OidfFetchFail in which the error leaves the acquisition pass
OidfFetchFail_EndsPass ==
  /\ pc = "AcquiringOidf"
  /\ ~Exists(OidfFilePath(missingSpecs.oidf[idx]))
  /\ requested' = requested \cup {missingSpecs.oidf[idx].id}
  /\ failedNow' = failedNow \cup {missingSpecs.oidf[idx].id}
  /\ pc' = "LoopTest"
  /\ UNCHANGED rfcLoop
  /\ UNCHANGED <<config, assembly, naming, frontier, portal, passes, depth, newSpecsFound, files, refsData, missingSpecs, written, failedPrev, trips>>

\* fetch throws or answers with an error status: the item is logged and dropped
OidfFetchFail ==
  /\ pc = "AcquiringOidf"
  /\ ~Exists(OidfFilePath(missingSpecs.oidf[idx]))
  /\ requested' = requested \cup {missingSpecs.oidf[idx].id}
  /\ failedNow' = failedNow \cup {missingSpecs.oidf[idx].id}
  /\ OidfAdvance
  /\ UNCHANGED <<config, assembly, naming, frontier, portal, passes, depth, newSpecsFound, files, refsData, missingSpecs, written, failedPrev, trips>>

\* a variant of RetryCondition that goes on after a success
RetryCondition_IgnoresSuccess == attempt <= 3

\* for (let attempt = 1; attempt <= 3 && !success; attempt++)
RetryCondition == attempt <= 3 /\ ~success

\* a variant of BreakerTripped with the threshold one higher
BreakerTripped_Late == failCount > 11

\* if (failCount > 10) break
BreakerTripped == failCount > 10

\* the next item of downloadIetfRfcs, or its end
IetfAdvance ==
  IF idx < Len(missingSpecs.ietf)
  THEN /\ idx' = idx + 1
       /\ attempt' = 1
       /\ success' = FALSE
       /\ UNCHANGED pc
  ELSE /\ pc' = "LoopTest"
       /\ UNCHANGED <<idx, attempt, success>>

\* the file of the item exists: continue
IetfSkip ==
  /\ pc = "AcquiringIetf"
  /\ attempt = 1 /\ ~success
  /\ Exists(IetfFilePath(missingSpecs.ietf[idx]))
  /\ IetfAdvance
  /\ UNCHANGED <<config, assembly, naming, frontier, portal, passes, depth, newSpecsFound, files, refsData, missingSpecs, failCount,
                 streak, observers, trips>>

\* an attempt may start: the file was absent when the item was reached
CanAttempt ==
  /\ pc = "AcquiringIetf"
  /\ RetryCondition
  /\ attempt = 1 => ~Exists(IetfFilePath(missingSpecs.ietf[idx]))

\* the attempt answers ok and the file is written
IetfFetchOk ==
  /\ CanAttempt
  /\ Acquired < MaxAcquired
  /\ files' = files \cup {IetfFilePath(missingSpecs.ietf[idx])}
  /\ written' = written \cup {IetfFilePath(missingSpecs.ietf[idx])}
  /\ requested' = requested \cup {missingSpecs.ietf[idx].id}
  /\ success' = TRUE
  /\ attempt' = attempt + 1
  /\ streak' = 0
  /\ UNCHANGED <<config, assembly, naming, frontier, portal, passes, pc, depth, newSpecsFound, refsData, missingSpecs, idx, failCount,
                 failedNow, failedPrev, trips>>

\* the catch block of an attempt: back off and retry, or count the item as failed
AttemptFailed ==
  /\ requested' = requested \cup {missingSpecs.ietf[idx].id}
  /\ attempt' = attempt + 1
  /\ IF attempt < 3
     THEN UNCHANGED <<failCount, failedNow, streak>>
     ELSE /\ failCount' = failCount + 1
          /\ failedNow' = failedNow \cup {missingSpecs.ietf[idx].id}
          /\ streak' = streak + 1
  /\ UNCHANGED <<config, assembly, naming, frontier, portal, passes, pc, depth, newSpecsFound, files, refsData, missingSpecs, idx, success,
                 written, failedPrev, trips>>

\* fetch throws, or answers with an error status, or the file cannot be written
IetfFetchFail == CanAttempt /\ AttemptFailed

\* the 15 s timer aborts the request: fetch throws
IetfFetchTimeout == CanAttempt /\ AttemptFailed

\* a variant of IetfItemEnd in which the tripped breaker throws, which ends the run
IetfItemEnd_Throws ==
  /\ pc = "AcquiringIetf"
  /\ ~RetryCondition
  /\ IF BreakerTripped
     THEN /\ pc' = "Crashed"
          /\ trips' = trips \cup {depth}
          /\ UNCHANGED <<idx, attempt, success>>
     ELSE /\ IetfAdvance
          /\ UNCHANGED trips
  /\ UNCHANGED <<config, assembly, naming, frontier, portal, passes, depth, newSpecsFound, files, refsData, missingSpecs, failCount,
                 streak, observers>>

\* after the retry loop: the circuit breaker, then the next item
IetfItemEnd ==
  /\ pc = "AcquiringIetf"
  /\ ~RetryCondition
  /\ IF BreakerTripped
     THEN /\ pc' = "LoopTest"
          /\ trips' = trips \cup {depth}
          /\ UNCHANGED <<idx, attempt, success>>
     ELSE /\ IetfAdvance
          /\ UNCHANGED trips
  /\ UNCHANGED <<config, assembly, naming, frontier, portal, passes, depth, newSpecsFound, files, refsData, missingSpecs, failCount,
                 streak, observers>>

\* a variant of FinalExtractOk in which the run ends without the final extraction
FinalExtractOk_Skipped ==
  /\ pc = "FinalExtract"
  /\ pc' = "Done"
  /\ UNCHANGED <<config, assembly, naming, frontier, portal, passes, depth, newSpecsFound, files, refsData, missingSpecs, rfcLoop, observers, trips>>

\* the final extraction after the loop
FinalExtractOk ==
  /\ pc = "FinalExtract"
  /\ refsData' = runExtractReferences
  /\ passes' = passes + 1
  /\ pc' = "Done"
  /\ UNCHANGED <<config, assembly, naming, frontier, portal, depth, newSpecsFound, files, missingSpecs, rfcLoop, observers, trips>>

FinalExtractFail ==
  /\ pc = "FinalExtract"
  /\ pc' = "Crashed"
  /\ UNCHANGED <<config, assembly, naming, frontier, portal, passes, depth, newSpecsFound, files, refsData, missingSpecs, rfcLoop, observers, trips>>

Next ==
  \/ LoopTest
  \/ ExtractOk
  \/ ExtractFail
  \/ FrontierCheck
  \/ OidfSkip
  \/ OidfFetchOk
  \/ OidfFetchFail
  \/ IetfSkip
  \/ IetfFetchOk
  \/ IetfFetchFail
  \/ IetfFetchTimeout
  \/ IetfItemEnd
  \/ FinalExtractOk
  \/ FinalExtractFail

Spec == Init /\ [][Next]_vars

\* The steps of a run in which every extraction pass exits with code 0.
NextOk ==
  \/ LoopTest
  \/ ExtractOk
  \/ FrontierCheck
  \/ OidfSkip
  \/ OidfFetchOk
  \/ OidfFetchFail
  \/ IetfSkip
  \/ IetfFetchOk
  \/ IetfFetchFail
  \/ IetfFetchTimeout
  \/ IetfItemEnd
  \/ FinalExtractOk

\* main() is one sequential async function: every await it reaches settles (a
\* child process exits, a fetch answers or is aborted after 15 s, a backoff
\* timer fires), so a step that is possible is eventually taken.
LiveSpec == Init /\ [][NextOk]_vars /\ WF_vars(NextOk)

\* ------------------------------------------------------------------------
\* Properties of the crawl controller
\* ------------------------------------------------------------------------

\* the file RFC 5280 is stored in
File_R == <<"I", "E", "T", "F", "/", "r", "f", "c", "5", "2", "8", "0", ".", "t", "x", "t">>

\* the identifiers of the frontier of the current iteration
FrontierIds ==
  {missingSpecs.oidf[k].id : k \in 1..Len(missingSpecs.oidf)}
    \cup {missingSpecs.ietf[k].id : k \in 1..Len(missingSpecs.ietf)}

\* the RFC items, by position, that were requested in the current iteration
RequestedRfcs == {k \in 1..Len(missingSpecs.ietf) : missingSpecs.ietf[k].id \in requested}

\* an extraction pass has run in the current iteration
Extracted_ThisIteration == depth >= 1 /\ pc \in {"FrontierCheck", "AcquiringOidf", "AcquiringIetf", "LoopTest"}

\* C1: in the end-to-end scenario (A cites B, B cites RFC 5280, maximum depth
\* at least 2), once RFC 5280 has been acquired in an earlier iteration and
\* the extraction pass of the current iteration has run, the node of RFC 5280
\* is marked present (it has a path), no acquisition pass is entered and the
\* frontier computed in the iteration is empty.
C1_AcquiredBecomesPresent ==
  (corpus = "e2e" /\ File_R \in files /\ File_R \notin written /\ Extracted_ThisIteration)
    => /\ has(refsData, Id_R)
       /\ get(refsData, Id_R).path # Null
       /\ pc = "FrontierCheck"

\* every item the current RFC pass has reached so far has failed all the
\* attempts made: failCount counts the items before idx, and idx itself once
\* its third attempt has failed
AllFailedSoFar == ~success /\ failCount = (IF attempt > 3 THEN idx ELSE idx - 1)

\* the RFC pass of the current iteration has ended and every item it reached
\* failed all its attempts
AllFailedPassEnded ==
  /\ pc = "LoopTest"
  /\ depth >= 1
  /\ Len(missingSpecs.ietf) > 0
  /\ attempt > 3
  /\ AllFailedSoFar

\* C2 (as stated): in an RFC pass in which every item fails all its attempts,
\* exactly the first ten items are attempted: no request is issued for the
\* eleventh or a later item.
C2_OnlyTenAttempted ==
  /\ (pc = "AcquiringIetf" /\ AllFailedSoFar /\ attempt > 1) => idx <= 10
  /\ AllFailedPassEnded => RequestedRfcs \subseteq 1..10

\* C2 (amended): in an RFC pass in which every item fails all its attempts,
\* exactly the first eleven items are attempted (all of them when the frontier
\* holds fewer): no request is issued for the twelfth or a later item.
C2_OnlyElevenAttempted ==
  /\ (pc = "AcquiringIetf" /\ AllFailedSoFar /\ attempt > 1) => idx <= 11
  /\ AllFailedPassEnded =>
       RequestedRfcs = {k \in 1..Len(missingSpecs.ietf) : k <= 11}

C2_Witness ==
  /\ AllFailedPassEnded
  /\ Len(missingSpecs.ietf) >= 12
  /\ RequestedRfcs = 1..11
  /\ failCount = 11

\* none of the documents of corpus c has an external reference
NoExternalReferences(c) ==
  \A f \in CorpusFiles(c) : \A t \in Range(externalTypes) :
    CorpusText(c)[f].normative[t] = <<>> /\ CorpusText(c)[f].informative[t] = <<>>

\* what C3 says of every state of a run on a corpus without external references
FixedPointStates ==
  /\ depth <= 1
  /\ requested = {}
  /\ pc \notin {"AcquiringOidf", "AcquiringIetf"}
  /\ pc \in {"FinalExtract", "Done"} =>
       depth = 1 /\ missingSpecs = NoMissing /\ ~newSpecsFound

PassEndedWithNothingNew == pc = "LoopTest" /\ depth >= 1 /\ written = {}

\* C5 (as stated): when the acquisition pass of an iteration has produced no
\* new content, the controller does not start another iteration, also below
\* the depth bound.
C5_StopsWithoutNewContent ==
  [][PassEndedWithNothingNew => pc' # "Extracting"]_vars

\* C5 (amended): when the acquisition pass of an iteration has produced no new
\* content, the controller starts the next iteration if the depth bound has
\* not been reached, and goes to the final extraction only if it has.
C5_ContinuesWithoutNewContent ==
  [][PassEndedWithNothingNew =>
       IF depth < MAX_DEPTH
       THEN pc' = "Extracting" /\ depth' = depth + 1
       ELSE pc' = "FinalExtract" /\ depth' = depth]_vars

C5_Witness ==
  /\ pc = "Extracting"
  /\ depth = 2
  /\ Acquired = 0
  /\ failedPrev # {}

\* a request of the current RFC item: the retry loop goes round once
RfcRequest ==
  /\ pc = "AcquiringIetf"
  /\ pc' = "AcquiringIetf"
  /\ idx' = idx
  /\ attempt' = attempt + 1

\* C6: an RFC item gets at most three attempts in a pass; an attempt is made
\* only while none has succeeded; a timed-out attempt changes nothing but the
\* attempt count, like any failed one, and is retried; the failure counter
\* grows, by one, exactly when the third attempt of an item fails.
C6_RetryPolicy ==
  /\ [](pc = "AcquiringIetf" => attempt \in 1..4)
  /\ [][RfcRequest => (attempt <= 3 /\ ~success)]_vars
  /\ [][(RfcRequest /\ ~success') =>
          /\ files' = files
          /\ failCount' = (IF attempt = 3 THEN failCount + 1 ELSE failCount)]_vars
  /\ [][(RfcRequest /\ success') => (failCount' = failCount /\ files' # files)]_vars
  /\ [][(pc = "AcquiringIetf" /\ failCount' # failCount) => (RfcRequest /\ attempt = 3)]_vars

C6_Witness ==
  /\ pc = "AcquiringIetf"
  /\ attempt = 4
  /\ ~success
  /\ failCount = 1
  /\ Acquired >= 1

\* C7: the circuit breaker trips only once more than ten RFC items in a row
\* have failed; failures separated by successful acquisitions do not trip it.
C7_ConsecutiveFailures ==
  (pc = "LoopTest" /\ depth \in trips) => streak > 10

CurrentItemExists ==
  \/ /\ pc = "AcquiringOidf"
     /\ OidfFilePath(missingSpecs.oidf[idx]) \in files
  \/ /\ pc = "AcquiringIetf"
     /\ attempt = 1 /\ ~success
     /\ IetfFilePath(missingSpecs.ietf[idx]) \in files

\* C9: an item of either class whose file exists when it is reached is
\* skipped: nothing is requested, no file is written, the item is not counted
\* as failed and the failure counter of the RFC pass stays as it is.
C9_ExistingIsSkipped ==
  [][CurrentItemExists =>
       /\ UNCHANGED <<files, written, requested, failedNow>>
       /\ pc = "AcquiringIetf" => failCount' = failCount]_vars

C9_Witness ==
  /\ corpus = "mixed"
  /\ pc = "LoopTest"
  /\ depth = 2
  /\ Cardinality(files \ written) = 3
  /\ requested # {}

\* the file of the frontier item with identifier id
FileOfId(id) ==
  IF \E k \in 1..Len(missingSpecs.oidf) : missingSpecs.oidf[k].id = id
  THEN OidfFilePath([id |-> id])
  ELSE IetfFilePath([number |-> String(parseInt(RfcDigits(id)))])

\* C10: an item whose acquisition fails in iteration k has no content file
\* when the iteration ends and, if the acquisition pass of iteration k+1 runs,
\* is in its frontier and is requested again in it.
C10_FailedIsRetried ==
  (pc = "LoopTest" /\ depth >= 1) =>
    /\ \A id \in failedNow : FileOfId(id) \notin files
    /\ depth >= 2 => (failedPrev \subseteq FrontierIds /\ failedPrev \subseteq requested)

\* the frontier of the current iteration has been computed and is not empty
FrontierComputed == pc \in {"AcquiringOidf", "AcquiringIetf"}

\* C11: no identifier of the frontier of an iteration has its content file
\* among the files that were present when the iteration began: what an earlier
\* iteration acquired is not in the frontier of a later one.
C11_FrontierLacksContent ==
  FrontierComputed => \A id \in FrontierIds : FileOfId(id) \notin (files \ written)

\* the sources of the nodes that are never acquired
NotAcquired == {"etsi", "iso", "itu", "w3c"}

\* the nodes of the graph as last written whose source is in S
NodesOfSource(S) == {k \in 1..Len(refsData.nodes) : refsData.nodes[k].source \in S}

\* C12: every identifier in the frontier and every identifier requested is a
\* node of the foundation-profile or the RFC domain; every file that is
\* written is the file of such an item; the cited nodes of the other domains
\* stay without a path.
C12_OnlyAcquirableDomains ==
  /\ \A id \in FrontierIds \cup requested :
       has(refsData, id) /\ get(refsData, id).source \in {"oidf", "ietf"}
  /\ files \ CorpusFiles(corpus) \subseteq {FileOfId(id) : id \in FrontierIds}
  /\ \A k \in NodesOfSource(NotAcquired) :
       refsData.nodes[k].path = Null \/ refsData.nodes[k].path \in CorpusFiles(corpus)

C12_Witness ==
  /\ pc = "Done"
  /\ Acquired >= 1
  /\ requested # {}
  /\ \A t \in NotAcquired : \E k \in NodesOfSource({t}) : refsData.nodes[k].path = Null

\* ------------------------------------------------------------------------
\* The reference extractor on its own: extraction of one document
\* ------------------------------------------------------------------------

\* the keys of the object extractAllRefs returns; no pattern fills cen
AllRefKeys == Range(RefTypes) \cup {"cen"}

\* extractAllRefs of a text without references, and of a section that is not found
NoRegion == [t \in AllRefKeys |-> {}]

\* Array.from(set).sort() for every type of the object
toArrays(obj) == [t \in DOMAIN obj |-> SortStrings(obj[t])]

\* const normative: the references of the normative section; the key cen is
\* dropped by normative[type]?.add(ref)
normativeRefs(region) == [t \in Range(RefTypes) |-> region[t]]

\* a variant of informativeRefs without the test !normative[type]?.has(ref)
informativeRefs_NoPrecedence(region, normative) == [t \in Range(RefTypes) |-> region[t]]

\* const informative: the references of the informative section that the
\* normative section of the same type does not hold
informativeRefs(region, normative) == [t \in Range(RefTypes) |-> region[t] \ normative[t]]

\* const all: every reference of both sections, and those of the whole text when
\* neither section holds a primary-standard reference (!hasStructuredRefs)
allRefs(sec, normative, informative) ==
  [t \in Range(RefTypes) |->
     sec.normative[t] \cup sec.informative[t]
       \cup (IF normative["etsi"] # {} \/ informative["etsi"] # {} THEN {} ELSE sec.whole[t])]

\* the object returned, from the sets built
ExtractionResult(sec, normative, informative) ==
  [ok |-> TRUE, normative |-> toArrays(normative), informative |-> toArrays(informative),
   all |-> toArrays(allRefs(sec, normative, informative))]

ExtractionFrom(sec, normative) ==
  ExtractionResult(sec, normative, informativeRefs(sec.informative, normative))

\* extractReferencesFromPdf of a file whose text is sec: sec.normative and
\* sec.informative are extractAllRefs of the two sections found by
\* extractReferencesSection, sec.whole is extractAllRefs of the whole text, and
\* sec.readable is false when reading the text throws
extractReferencesFromPdf(sec) ==
  IF ~sec.readable THEN [ok |-> FALSE] ELSE ExtractionFrom(sec, normativeRefs(sec.normative))

\* extractReferencesFromDocx: the same steps on the text mammoth returns
extractReferencesFromDocx(sec) ==
  IF ~sec.readable THEN [ok |-> FALSE] ELSE ExtractionFrom(sec, normativeRefs(sec.normative))

\* ------------------------------------------------------------------------
\* The reference extractor on its own: the batches looked at
\* ------------------------------------------------------------------------

\* largest number of files under SPECS_PATH
MaxBatch == 2

\* largest number of runs of the extractor over the same files
MaxRuns == 2

\* a second version of the document of P_A, a draft of it, a draft named in the
\* working-group form that is stored next to the published documents (its path
\* sorts before theirs), and a file whose name holds no document identifier
P_A3 == <<"E", "N", "/", "e", "n", "_", "3", "1", "9", "4", "0", "1", "v", "0", "3", "0", "1", "0", "1", "p", ".", "p", "d", "f">>
D_A == <<"d", "r", "a", "f", "t", "s", "/", "e", "n", "_", "3", "1", "9", "4", "0", "1", "v", "0", "3", "0", "1", "0", "2", ".", "d", "o", "c", "x">>
D_T == <<"E", "N", "/", "E", "S", "I", "-", "0", "0", "1", "9", "4", "6", "1", "v", "0", "0", "1", ".", "d", "o", "c", "x">>
P_X == <<"E", "N", "/", "n", "o", "t", "e", "s", ".", "p", "d", "f">>

BatchFiles == {P_A, P_A3, P_B, D_A, D_T, P_X}

\* "EN 319403": the spelling extractAllRefs returns for a citation without the space
Id_Bs == <<"E", "N", " ", "3", "1", "9", "4", "0", "3">>

Region(etsi, ietf, oidf) ==
  [NoRegion EXCEPT !["etsi"] = etsi, !["ietf"] = ietf, !["oidf"] = oidf]

Union2(a, b) == [t \in AllRefKeys |-> a[t] \cup b[t]]

\* a text with the two sections given and nothing cited outside them
Sections(normative, informative) ==
  [readable |-> TRUE, normative |-> normative, informative |-> informative,
   whole |-> Union2(normative, informative)]

\* the texts a file of the batch can hold:
\*   "none"  no references at all
\*   "cites" both sections; EN 319 403 and RFC 5280 are in both, and EN 319 401
\*           (the identifier of P_A, P_A3 and D_A) is in the normative one
\*   "spell" EN 319 403 in the normative section and, without the space, in the
\*           informative one
\*   "flat"  no section is found; the text cites EN 319 403 and RFC 5280
\*   "ext"   sections without primary-standard references: OpenID4VP in both,
\*           ISO 27001 normative, W3C SD-JWT informative; EN 319 411-1 is cited
\*           outside the sections
\*   "bad"   the text cannot be read
Texts == {"none", "cites", "spell", "flat", "ext", "bad"}

TextOf(name) ==
  IF name = "none" THEN Sections(NoRegion, NoRegion)
  ELSE IF name = "cites"
  THEN Sections(Region({Id_A, Id_B}, {Id_R}, {}), Region({Id_B}, {Id_R}, {Id_VP}))
  ELSE IF name = "spell"
  THEN Sections(Region({Id_B}, {}, {}), Region({Id_Bs}, {}, {}))
  ELSE IF name = "flat"
  THEN [readable |-> TRUE, normative |-> NoRegion, informative |-> NoRegion,
        whole |-> Region({Id_B}, {Id_R}, {})]
  ELSE IF name = "ext"
  THEN [readable |-> TRUE,
        normative |-> [Region({}, {}, {Id_VP}) EXCEPT !["iso"] = {Id_ISO}],
        informative |-> [Region({}, {}, {Id_VP}) EXCEPT !["w3c"] = {Id_W3C}],
        whole |-> [Region({Id_E}, {}, {Id_VP}) EXCEPT !["iso"] = {Id_ISO}, !["w3c"] = {Id_W3C}]]
  ELSE [readable |-> FALSE, normative |-> NoRegion, informative |-> NoRegion, whole |-> NoRegion]

\* what the extraction returns for each text, as a published document and as a draft
PdfRefs == [n \in Texts |-> extractReferencesFromPdf(TextOf(n))]

DocxRefs == [n \in Texts |-> extractReferencesFromDocx(TextOf(n))]

\* ------------------------------------------------------------------------
\* The reference extractor on its own: extractReferences() step by step
\* ------------------------------------------------------------------------

crawl ==
  <<corpus, MAX_DEPTH, pc, depth, newSpecsFound, files, refsData, missingSpecs,
    idx, attempt, success, failCount, written, requested, failedNow, failedPrev,
    streak, trips, passes>>

\* the crawl controller is not running
NoCrawl ==
  /\ corpus = "plain"
  /\ MAX_DEPTH = 1
  /\ pc = "Idle"
  /\ depth = 0
  /\ newSpecsFound = FALSE
  /\ files = {}
  /\ refsData = EmptyGraph
  /\ missingSpecs = NoMissing
  /\ idx = 0
  /\ attempt = 0
  /\ success = FALSE
  /\ failCount = 0
  /\ written = {}
  /\ requested = {}
  /\ failedNow = {}
  /\ failedPrev = {}
  /\ streak = 0
  /\ trips = {}
  /\ passes = 0

\* the files under SPECS_PATH, what each holds, and the command line
AssemblyInit ==
  /\ NoCrawl
  /\ NoNaming
  /\ NoFrontier
  /\ NoPortal
  /\ specs \in {S \in SUBSET BatchFiles : Cardinality(S) \in 1..MaxBatch}
  /\ content \in [specs -> Texts]
  /\ includeDrafts \in BOOLEAN
  /\ graph = EmptyGraph
  /\ pdfQueue = <<>>
  /\ docxQueue = <<>>
  /\ phase = "Idle"
  /\ snapshot = EmptyGraph
  /\ runs = 0

\* a variant of StartExtraction in which the graph outlives the run
StartExtraction_KeepsGraph ==
  /\ phase \in {"Idle", "Assembled"}
  /\ runs < MaxRuns
  /\ snapshot' = graph
  /\ graph' = graph
  /\ pdfQueue' = findPdfFiles(specs)
  /\ docxQueue' = (IF includeDrafts THEN findDocxFiles(specs) ELSE <<>>)
  /\ phase' = "Pdfs"
  /\ UNCHANGED <<crawl, naming, frontier, portal, specs, content, includeDrafts, runs>>

\* the extractor is started: the files are listed, graph and results are created
StartExtraction ==
  /\ phase \in {"Idle", "Assembled"}
  /\ runs < MaxRuns
  /\ snapshot' = graph
  /\ graph' = EmptyGraph
  /\ pdfQueue' = findPdfFiles(specs)
  /\ docxQueue' = (IF includeDrafts THEN findDocxFiles(specs) ELSE <<>>)
  /\ phase' = "Pdfs"
  /\ UNCHANGED <<crawl, naming, frontier, portal, specs, content, includeDrafts, runs>>

\* one turn of the loop over pdfFiles
PdfStep ==
  /\ phase = "Pdfs"
  /\ pdfQueue # <<>>
  /\ graph' = ProcessPdf(graph, Head(pdfQueue), PdfRefs[content[Head(pdfQueue)]])
  /\ pdfQueue' = Tail(pdfQueue)
  /\ UNCHANGED <<crawl, naming, frontier, portal, specs, content, docxQueue, phase, includeDrafts, snapshot, runs>>

\* the loop over pdfFiles ends
PdfsDone ==
  /\ phase = "Pdfs"
  /\ pdfQueue = <<>>
  /\ phase' = "Docxs"
  /\ UNCHANGED <<crawl, naming, frontier, portal, specs, content, graph, pdfQueue, docxQueue, includeDrafts, snapshot, runs>>

\* one turn of the loop over docxFiles
DocxStep ==
  /\ phase = "Docxs"
  /\ docxQueue # <<>>
  /\ graph' = ProcessDocx(graph, Head(docxQueue), DocxRefs[content[Head(docxQueue)]])
  /\ docxQueue' = Tail(docxQueue)
  /\ UNCHANGED <<crawl, naming, frontier, portal, specs, content, pdfQueue, phase, includeDrafts, snapshot, runs>>

\* the loops have ended: the graph is written to references.json
WriteResults ==
  /\ phase = "Docxs"
  /\ docxQueue = <<>>
  /\ phase' = "Assembled"
  /\ runs' = runs + 1
  /\ UNCHANGED <<crawl, naming, frontier, portal, specs, content, graph, pdfQueue, docxQueue, includeDrafts, snapshot>>

AssemblyNext ==
  \/ StartExtraction
  \/ PdfStep
  \/ PdfsDone
  \/ DocxStep
  \/ WriteResults

AssemblySpec == AssemblyInit /\ [][AssemblyNext]_vars

\* the run has ended and its graph has been written
Assembled == phase = "Assembled"

\* the run step by step ends with the graph extractReferences returns
StepsAgreeWithExtractReferences ==
  Assembled =>
    graph = extractReferences(specs,
                              [f \in specs |-> IF endsWith(f, S_pdf) THEN PdfRefs[content[f]]
                                               ELSE DocxRefs[content[f]]],
                              includeDrafts)

\* ------------------------------------------------------------------------
\* Properties of the reference extractor
\* ------------------------------------------------------------------------

\* the identifiers of the nodes of a graph, as written to references.json
NodeIds(g) == {g.nodes[k].id : k \in 1..Len(g.nodes)}

\* C13: after every processed document, the from and the to of every edge are
\* identifiers of nodes of the graph; a cited document that is not itself a
\* processed document has a node without a path
C13_EdgeEndpointsAreNodes ==
  \A k \in 1..Len(graph.edges) :
    /\ graph.edges[k].from \in NodeIds(graph)
    /\ graph.edges[k].to \in NodeIds(graph)

\* a run has ended with an edge to a document that was not processed
C13_Witness ==
  /\ Assembled
  /\ \E k \in 1..Len(graph.edges) :
       \E n \in 1..Len(graph.nodes) :
         graph.nodes[n].id = graph.edges[k].to /\ graph.nodes[n].path = Null

\* the number of edges of a graph that point to id, and that start from id
EdgesTo(g, id) == Cardinality({k \in 1..Len(g.edges) : g.edges[k].to = id})

EdgesFrom(g, id) == Cardinality({k \in 1..Len(g.edges) : g.edges[k].from = id})

\* the documents of results.documents that were filed under docId
DocumentsOf(g, docId) == {k \in 1..Len(g.documents) : g.documents[k].docId = docId}

\* C14: when the run has ended, the inbound count of every node is the number
\* of edges of the edge list whose target is that node
C14_InboundCountIsEdgeCount ==
  Assembled =>
    \A n \in 1..Len(graph.nodes) :
      graph.nodes[n].referencedByCount = EdgesTo(graph, graph.nodes[n].id)

\* a run has ended in which two files of one identifier cite the same document
C14_Witness ==
  /\ Assembled
  /\ \E n \in 1..Len(graph.nodes) : graph.nodes[n].referencedByCount >= 2
  /\ \E k \in 1..Len(graph.documents) :
       Cardinality(DocumentsOf(graph, graph.documents[k].docId)) >= 2

\* C15: when the run has ended, the outbound count of every node is the number
\* of edges of the edge list that start from that node
C15_OutboundCountIsEdgeCount ==
  Assembled =>
    \A n \in 1..Len(graph.nodes) :
      graph.nodes[n].referencesCount = EdgesFrom(graph, graph.nodes[n].id)

\* the primary-standard references of an extraction result, both classifications
EtsiRefs(refs) == Range(refs.normative["etsi"]) \cup Range(refs.informative["etsi"])

\* C16: no edge of the graph starts and ends at the same identifier, also when
\* a document cites its own identifier in a spelling that normalizes to it
C16_NoSelfLoop ==
  \A k \in 1..Len(graph.edges) : graph.edges[k].from # graph.edges[k].to

\* a run has ended over a document that cites its own identifier in two spellings
C16_Witness ==
  /\ Assembled
  /\ \E k \in 1..Len(graph.documents) :
       \E r1, r2 \in EtsiRefs(graph.documents[k].references) :
         /\ r1 # r2
         /\ normalizeDocId(r1) = graph.documents[k].docId
         /\ normalizeDocId(r2) = graph.documents[k].docId

\* the text of the file a document of results.documents was read from
TextOfDocument(d) == TextOf(content[CHOOSE f \in specs : basename(f) = d.file])

\* the identifiers of one domain found in both sections of a text
InBothSections(sec, t) == sec.normative[t] \cap sec.informative[t]

\* the positions of ref in an array
Positions(arr, ref) == {i \in 1..Len(arr) : arr[i] = ref}

SamePair(g, i, j) ==
  /\ i # j
  /\ g.edges[i].from = g.edges[j].from
  /\ g.edges[i].to = g.edges[j].to

\* C18: the edge list holds, for every ordered pair (from, to), at most one edge
\* of each classification, and no informative edge next to a normative edge
C18_DuplicateEdgesSuppressed ==
  \A i, j \in 1..Len(graph.edges) :
    SamePair(graph, i, j) =>
      /\ graph.edges[i].type # graph.edges[j].type
      /\ ~(graph.edges[i].type = "normative" /\ graph.edges[j].type = "informative")

\* C19: a second run of the extractor over the same files and texts ends with
\* the nodes, the edge list and the counts the first run ended with
C19_SecondRunGivesSameGraph ==
  (Assembled /\ runs >= 2) =>
    /\ graph.nodes = snapshot.nodes
    /\ graph.edges = snapshot.edges

\* a second run has ended over documents with references
C19_Witness ==
  /\ Assembled
  /\ runs = 2
  /\ Len(graph.edges) >= 2
  /\ \E n \in 1..Len(graph.nodes) : graph.nodes[n].referencedByCount >= 1
  /\ \E n \in 1..Len(graph.nodes) : graph.nodes[n].referencesCount >= 1

\* the extraction result of every file under SPECS_PATH
RefsOfBatch ==
  [f \in specs |-> IF endsWith(f, S_pdf) THEN PdfRefs[content[f]] ELSE DocxRefs[content[f]]]

Reverse(s) == [k \in 1..Len(s) |-> s[Len(s) + 1 - k]]

\* the graph the two loops build when they take the files in the order given
AssembledInOrder(pdfs, docxs) ==
  ProcessDocxs(ProcessPdfs(EmptyGraph, pdfs, RefsOfBatch), docxs, RefsOfBatch)

\* a graph up to the order of its nodes and edges: the nodes with presence
\* indicator, draft flag and counts, and the set of edges
GraphView(g) ==
  [nodes |-> {[id |-> g.nodes[n].id, present |-> g.nodes[n].path # Null,
               isDraft |-> g.nodes[n].isDraft,
               referencesCount |-> g.nodes[n].referencesCount,
               referencedByCount |-> g.nodes[n].referencedByCount] : n \in 1..Len(g.nodes)},
   edges |-> Range(g.edges)]

\* C20: the graph of a run is the graph the loops build when the published
\* documents and the drafts are taken in the opposite order: same nodes with
\* the same presence indicator, draft flag and counts, same set of edges
C20_OrderIndependent ==
  Assembled =>
    GraphView(graph) =
      GraphView(AssembledInOrder(Reverse(findPdfFiles(specs)),
                                 IF includeDrafts THEN Reverse(findDocxFiles(specs)) ELSE <<>>))

\* the published documents and the drafts that a run has processed
PublishedDocuments(g) == {k \in 1..Len(g.documents) : ~g.documents[k].isDraft}

DraftDocuments(g) == {k \in 1..Len(g.documents) : g.documents[k].isDraft}

\* C21: when the run has ended, the node of every identifier with a processed
\* published document carries the path of a published document and is not
\* flagged as draft
C21_PublishedContentKept ==
  Assembled =>
    \A k \in PublishedDocuments(graph) :
      /\ get(graph, graph.documents[k].docId).path # Null
      /\ endsWith(get(graph, graph.documents[k].docId).path, S_pdf)
      /\ ~get(graph, graph.documents[k].docId).isDraft

\* document k of results.documents is cited by a document processed before any
\* document of its identifier: its node was created without a path
CitedBeforeProcessed(g, k) ==
  /\ \A j \in 1..(k - 1) : g.documents[j].docId # g.documents[k].docId
  /\ \E j \in 1..(k - 1) :
       \E r \in EtsiRefs(g.documents[j].references) :
         normalizeDocId(r) = g.documents[k].docId

\* the path of the file document k of results.documents was read from
PathOfDocument(g, k) == CHOOSE f \in specs : basename(f) = g.documents[k].file

\* C22: when the run has ended, the node of a document that was processed after
\* a reference had created its node carries the path of that document
C22_PlaceholderUpgraded ==
  Assembled =>
    \A k \in 1..Len(graph.documents) :
      CitedBeforeProcessed(graph, k) =>
        get(graph, graph.documents[k].docId).path = PathOfDocument(graph, k)

\* the files the two loops of a run go over
Listed ==
  Range(findPdfFiles(specs)) \cup (IF includeDrafts THEN Range(findDocxFiles(specs)) ELSE {})

\* reading the text of file f throws
Unreadable(f) == ~TextOf(content[f]).readable

\* this step is the turn of the loops for file f
TurnOf(f) ==
  \/ phase = "Pdfs" /\ pdfQueue # <<>> /\ Head(pdfQueue) = f /\ pdfQueue' = Tail(pdfQueue)
  \/ phase = "Docxs" /\ docxQueue # <<>> /\ Head(docxQueue) = f /\ docxQueue' = Tail(docxQueue)

\* the turn for a file that cannot be read adds one entry for it to
\* results.errors and leaves nodes (with their counts), edges and documents alone
FailureIsRecordedOnly ==
  \A f \in specs :
    (TurnOf(f) /\ Unreadable(f)) =>
      /\ graph'.nodes = graph.nodes
      /\ graph'.edges = graph.edges
      /\ graph'.documents = graph.documents
      /\ Len(graph'.errors) = Len(graph.errors) + 1
      /\ graph'.errors[Len(graph'.errors)].file = basename(f)

\* at the end of the run every listed file has had its turn: a file that could
\* be read and has an identifier is in results.documents, one that could not be
\* read is in results.errors
AllListedHandled ==
  Assembled =>
    \A f \in Listed :
      IF Unreadable(f)
      THEN \E k \in 1..Len(graph.errors) : graph.errors[k].file = basename(f)
      ELSE \/ \E k \in 1..Len(graph.documents) : graph.documents[k].file = basename(f)
           \/ OrElse(normalizeDocId(filenameToDocId(basename(f))), basename(f)) = Null

\* C23: a document whose text cannot be read gets one entry in results.errors,
\* adds no node and no edge and changes no count, and the documents after it
\* are still processed
C23_FailureIsContained == [][FailureIsRecordedOnly]_vars /\ []AllListedHandled

\* a run has ended in which a file could not be read and a later one was processed
C23_Witness ==
  /\ Assembled
  /\ \E f, h \in Range(findPdfFiles(specs)) :
       /\ Unreadable(f)
       /\ StrLess(f, h)
       /\ \E k \in 1..Len(graph.errors) : graph.errors[k].file = basename(f)
       /\ \E k \in 1..Len(graph.documents) :
            graph.documents[k].file = basename(h) /\ Len(graph.edges) >= 1

\* ------------------------------------------------------------------------
\* Further properties of the crawl controller
\* ------------------------------------------------------------------------

\* C24: no failure ends a crawl run before the final graph has been produced:
\* the controller is never left in the state in which main() has rejected
C24_NoFailureIsFatal == pc # "Crashed"

\* ------------------------------------------------------------------------
\* The derivation of canonical identifiers on its own
\* ------------------------------------------------------------------------

\* largest part number of a document
MaxPart == 11

ToLower(c) == IF c \in Range(UpperChars) THEN LowerChars[IndexOf(UpperChars, c)] ELSE c

RECURSIVE toLowerCase(_)
toLowerCase(s) == IF s = <<>> THEN <<>> ELSE <<ToLower(Head(s))>> \o toLowerCase(Tail(s))

\* the decimal digits of n, with zeros in front up to the width w
RECURSIVE Pad(_, _)
Pad(n, w) == IF Len(String(n)) >= w THEN String(n) ELSE <<"0">> \o Pad(n, w - 1)

DocTypes == {S_EN, S_TS, S_TR, S_ES, S_EG, S_SR}

\* the two three-digit groups of the documents looked at
NumberPairs == {<<<<"3", "1", "9">>, <<"4", "0", "3">>>>, <<<<"1", "1", "9">>, <<"1", "0", "2">>>>}

\* the widths the part number is written with in the name of a stored file
PartWidths == {1, 2, 3, 4}

\* the name of the stored file of a document: type, "_", the digit group (the
\* two number groups and, when the document has a part, its part number), and
\* the version; part 0 stands for a document without parts
StoredNameOf(type, pair, part, width) ==
  type \o <<"_">> \o pair[1] \o pair[2] \o (IF part = 0 THEN <<>> ELSE Pad(part, width))
       \o <<"v", "0", "1", "0", "2", "0", "1", "p", ".", "p", "d", "f">>

\* the part of a citation that gives the part number
PartOfCitation(part, zero) ==
  IF part = 0 THEN <<>> ELSE <<"-">> \o (IF zero THEN <<"0">> ELSE <<>>) \o String(part)

\* the ways the same document is cited in a text
Spellings == {"plain", "joined", "etsi", "zero", "lower"}

CitationOf(type, pair, part, spelling) ==
  IF spelling = "plain"
  THEN type \o <<" ">> \o pair[1] \o <<" ">> \o pair[2] \o PartOfCitation(part, FALSE)
  ELSE IF spelling = "joined"
  THEN type \o <<" ">> \o pair[1] \o pair[2] \o PartOfCitation(part, FALSE)
  ELSE IF spelling = "etsi"
  THEN <<"E", "T", "S", "I", " ">> \o type \o <<" ">> \o pair[1] \o <<" ">> \o pair[2]
         \o PartOfCitation(part, FALSE)
  ELSE IF spelling = "zero"
  THEN type \o <<" ">> \o pair[1] \o <<" ">> \o pair[2] \o PartOfCitation(part, TRUE)
  ELSE toLowerCase(type) \o <<" ">> \o pair[1] \o <<" ">> \o pair[2] \o PartOfCitation(part, FALSE)

\* the name of a stored file whose digit group has five digits
ShortNameOf(type, pair) ==
  type \o <<"_">> \o pair[1] \o Slice(pair[2], 1, 2)
       \o <<"v", "0", "1", "0", "2", "0", "1", "p", ".", "p", "d", "f">>

\* a stored file and a citation of the same document; a file with a short
\* digit group stands for no document that is cited
NamingInit ==
  /\ NoCrawl
  /\ NoAssembly
  /\ NoFrontier
  /\ NoPortal
  /\ \E type \in DocTypes, pair \in NumberPairs, part \in 0..MaxPart, width \in PartWidths :
       /\ storedName \in {StoredNameOf(type, pair, part, width),
                          StoredNameOf(toLowerCase(type), pair, part, width),
                          ShortNameOf(type, pair)}
       /\ citation \in {CitationOf(type, pair, part, sp) : sp \in Spellings}
  /\ idByName = Null
  /\ idByCitation = Null
  /\ derived = {}

\* const docId = normalizeDocId(filenameToDocId(filename))
DeriveFromName ==
  /\ "name" \notin derived
  /\ idByName' = normalizeDocId(filenameToDocId(storedName))
  /\ derived' = derived \cup {"name"}
  /\ UNCHANGED <<crawl, assembly, frontier, portal, storedName, citation, idByCitation>>

\* const targetId = normalizeDocId(ref)
DeriveFromCitation ==
  /\ "citation" \notin derived
  /\ idByCitation' = normalizeDocId(citation)
  /\ derived' = derived \cup {"citation"}
  /\ UNCHANGED <<crawl, assembly, frontier, portal, storedName, citation, idByName>>

NamingNext ==
  \/ DeriveFromName
  \/ DeriveFromCitation

NamingSpec == NamingInit /\ [][NamingNext]_vars

\* the length of the digit group of the name of the stored file
DigitGroup == SpanDigits(storedName, 4)

\* C25: for the name of a stored file with a digit group of 6, 8 or 9 digits,
\* the identifier derived from the name is the identifier derived from a
\* citation of the same document
C25_NameAgreesWithCitation ==
  (derived = {"name", "citation"} /\ DigitGroup \in {6, 8, 9}) =>
    /\ idByName # Null
    /\ idByName = idByCitation

\* both identifiers have been derived for a file with nine digits whose document
\* has a two-digit part number, cited without the space between the groups
C25_Witness ==
  /\ derived = {"name", "citation"}
  /\ DigitGroup = 9
  /\ storedName[1] = "t"
  /\ idByName = <<"T", "S", " ", "1", "1", "9", " ", "1", "0", "2", "-", "1", "0">>
  /\ citation = <<"T", "S", " ", "1", "1", "9", "1", "0", "2", "-", "1", "0">>

\* the first pass of a run has ended and its frontier has been computed; graph
\* and frontier stay as they are until the next extraction
AfterFirstPass == depth = 1 /\ pc \in {"AcquiringOidf", "AcquiringIetf", "LoopTest", "FinalExtract"}

EdgeOf(from, to, type, source) == [from |-> from, to |-> to, type |-> type, source |-> source]

\* C26: in the end-to-end scenario (A cites B normatively, B cites RFC 5280
\* informatively, RFC 5280 is not stored) the graph of the first pass has the
\* three nodes A, B and RFC 5280, the last one without a path, and the two
\* edges A to B (normative) and B to RFC 5280 (informative), and the frontier
\* is RFC 5280 alone
C26_EndToEndFirstPass ==
  (corpus = "e2e" /\ AfterFirstPass) =>
    /\ Len(refsData.nodes) = 3
    /\ NodeIds(refsData) = {Id_A, Id_B, Id_R}
    /\ get(refsData, Id_R).path = Null
    /\ refsData.edges = <<EdgeOf(Id_A, Id_B, "normative", "etsi"),
                          EdgeOf(Id_B, Id_R, "informative", "ietf")>>
    /\ missingSpecs.oidf = <<>>
    /\ Len(missingSpecs.ietf) = 1
    /\ FrontierIds = {Id_R}

\* the frontier of the first pass of the end-to-end scenario has been computed
C26_Witness ==
  /\ corpus = "e2e"
  /\ depth = 1
  /\ pc = "AcquiringIetf"
  /\ idx = 1
  /\ requested = {}
  /\ Len(refsData.edges) = 2

\* the value of MAX_DEPTH when --depth is not given
DefaultDepth == 1

\* the number of iterations the documentation gives as the maximum
DocumentedMaxIterations == 5

\* an iteration has found missing external specifications
FoundMissing == Len(missingSpecs.oidf) > 0 \/ Len(missingSpecs.ietf) > 0

\* C27: started without options, the crawler leaves its loop for the final
\* extraction only after an iteration that found no missing external
\* specification, or after the fifth iteration
C27_IteratesUpToFive ==
  (MAX_DEPTH = DefaultDepth /\ pc = "FinalExtract") =>
    (~FoundMissing \/ depth >= DocumentedMaxIterations)

\* the files of a run that have not had their turn yet
Waiting == Range(pdfQueue) \cup Range(docxQueue)

\* every turn is for the file with the smallest path among all waiting files
TurnsAscendOverAll ==
  \A f \in specs : TurnOf(f) => \A h \in Waiting : h = f \/ StrLess(f, h)

\* every turn is for the file with the smallest path among the waiting files of
\* its kind, and a draft has its turn when no published document is waiting
TurnsAscendWithinKind ==
  \A f \in specs :
    TurnOf(f) =>
      /\ phase = "Pdfs" => \A h \in Range(pdfQueue) : h = f \/ StrLess(f, h)
      /\ phase = "Docxs" => pdfQueue = <<>> /\ \A h \in Range(docxQueue) : h = f \/ StrLess(f, h)

\* C28 as stated: in one run the files, published and draft alike, are processed
\* in ascending order of their paths, and the graph is a function of the files
C28_AscendingOverAll == [][TurnsAscendOverAll]_vars /\ []StepsAgreeWithExtractReferences

\* C28 as the code has it: the published documents are processed in ascending
\* order of their paths, then the drafts in ascending order of theirs, and the
\* graph is a function of the files
C28_AscendingWithinKind == [][TurnsAscendWithinKind]_vars /\ []StepsAgreeWithExtractReferences

\* a run has ended that processed a published document before a draft whose
\* path sorts before it
C28_Witness ==
  /\ Assembled
  /\ Len(graph.documents) = 2
  /\ ~graph.documents[1].isDraft
  /\ graph.documents[2].isDraft
  /\ StrLess(PathOfDocument(graph, 2), PathOfDocument(graph, 1))

\* this step is a request for the foundation-profile item at idx
OidfRequest == pc = "AcquiringOidf" /\ requested' # requested

\* a foundation-profile item is requested only if it has not been requested in
\* this pass, and the request is the only one of the step
OidfRequestedOnce ==
  OidfRequest =>
    /\ missingSpecs.oidf[idx].id \notin requested
    /\ requested' = requested \cup {missingSpecs.oidf[idx].id}

\* a failed request of a foundation-profile item leaves the failure counter and
\* the circuit breaker alone (the counter is only set to 0 when the RFC pass
\* begins), and the pass goes on with the next foundation-profile item, or with
\* the RFC items when there are any
OidfFailureIsDropped ==
  (OidfRequest /\ failedNow' # failedNow) =>
    /\ failCount' <= failCount
    /\ trips' = trips
    /\ files' = files
    /\ IF idx < Len(missingSpecs.oidf)
       THEN pc' = "AcquiringOidf" /\ idx' = idx + 1
       ELSE IF Len(missingSpecs.ietf) > 0
       THEN pc' = "AcquiringIetf" /\ idx' = 1 /\ failCount' = 0
       ELSE pc' = "LoopTest"

\* C29: a foundation-profile item is requested at most once in a pass; a failed
\* request is not repeated, changes no failure counter and is followed by the
\* remaining foundation-profile items and by the RFC acquisitions of the pass
C29_OidfSingleAttempt == [][OidfRequestedOnce /\ OidfFailureIsDropped]_vars

\* in one pass the first foundation-profile item failed, the second was
\* requested, and the RFC items have been reached
C29_Witness ==
  /\ corpus = "mixed"
  /\ pc = "AcquiringIetf"
  /\ Id_VP \in failedNow
  /\ Id_SDJWTVC \in requested
  /\ \E k \in 1..Len(missingSpecs.ietf) : missingSpecs.ietf[k].id \in requested

\* ------------------------------------------------------------------------
\* The frontier computation on its own: findMissingSpecs on a graph that is
\* read from references.json
\* ------------------------------------------------------------------------

\* the largest number of nodes of the graph that is read
MaxNodes == 2

\* identifiers with no entry in OIDF_SPEC_URLS and with no RFC number
Id_FAPI == <<"F", "A", "P", "I", " ", "2", ".", "0">>
Id_BCP == <<"B", "C", "P", " ", "1", "4">>

\* a path of a node that has content
P_Some == <<"O", "I", "D", "F", "/", "x", ".", "h", "t", "m", "l">>

\* the nodes a graph is made of: each identifier with and without a path
NodePool ==
  {NewNode(e.id, e.source, p, FALSE) :
     e \in {[id |-> Id_VP, source |-> "oidf"], [id |-> Id_FAPI, source |-> "oidf"],
            [id |-> Id_R, source |-> "ietf"], [id |-> Id_BCP, source |-> "ietf"],
            [id |-> Id_ISO, source |-> "iso"]},
     p \in {Null, P_Some}}

\* the node lists of at most MaxNodes nodes with distinct identifiers, as the
\* values() of a Map keyed by identifier
NodeLists ==
  UNION {{s \in [1..n -> NodePool] : \A i, j \in 1..n : s[i].id = s[j].id => i = j} : n \in 0..MaxNodes}

\* the console.log of findMissingSpecs for one node: the identifier of an OIDF
\* node without a path and without a URL, and only when VERBOSE is set
ReportOf(node, verbose) ==
  IF node.source = "oidf" /\ node.path = Null /\ findOidfUrl(node.id) = Null /\ verbose
  THEN <<node.id>>
  ELSE <<>>

RECURSIVE ReportsFrom(_, _)
ReportsFrom(nodes, verbose) ==
  IF nodes = <<>> THEN <<>>
  ELSE ReportOf(Head(nodes), verbose) \o ReportsFrom(Tail(nodes), verbose)

\* the canonical names extractAllRefs gives to the matches of REF_PATTERNS.oidf
N_VP == <<"O", "p", "e", "n", "I", "D", "4", "V", "P">>
N_VCI == <<"O", "p", "e", "n", "I", "D", "4", "V", "C", "I">>
N_VCHAIP == <<"O", "p", "e", "n", "I", "D", "4", "V", "C", "-", "H", "A", "I", "P">>
N_VC == <<"O", "p", "e", "n", "I", "D", "4", "V", "C">>
N_Connect == <<"O", "p", "e", "n", "I", "D", " ", "C", "o", "n", "n", "e", "c", "t">>
N_SDJWTVC == <<"S", "D", "-", "J", "W", "T", " ", "V", "C">>
N_SDJWT == <<"S", "D", "-", "J", "W", "T">>
N_HAIP == <<"H", "A", "I", "P">>

CanonicalOidfNames == {N_VP, N_VCI, N_VCHAIP, N_VC, N_Connect, N_SDJWTVC, N_SDJWT, N_HAIP}

W_OpenID == <<"O", "p", "e", "n", "I", "D">>
W_Connect == <<"C", "o", "n", "n", "e", "c", "t">>
W_for == <<"f", "o", "r">>
W_Verifiable == <<"V", "e", "r", "i", "f", "i", "a", "b", "l", "e">>
W_Presentation == <<"P", "r", "e", "s", "e", "n", "t", "a", "t", "i", "o", "n">>
W_Credential == <<"C", "r", "e", "d", "e", "n", "t", "i", "a", "l">>

\* the literals of words, separated by \s+, match s at position p (flag /i)
RECURSIVE SpacedWordsAt(_, _, _)
SpacedWordsAt(s, p, words) ==
  /\ MatchAtCI(s, p, Head(words))
  /\ \/ Tail(words) = <<>>
     \/ /\ SpanSpace(s, p + Len(Head(words))) >= 1
        /\ SpacedWordsAt(s, p + Len(Head(words)) + SpanSpace(s, p + Len(Head(words))), Tail(words))

\* /w1\s+w2.../i.test(s)
TestSpaced(s, words) == \E p \in 1..Len(s) : SpacedWordsAt(s, p, words)

\* a variant of OidfName without the two rules for the long names
OidfName_NoLongNames(raw) ==
  IF TestWords(raw, <<N_VP>>) THEN N_VP
  ELSE IF TestWords(raw, <<N_VCI>>) THEN N_VCI
  ELSE IF TestWords(raw, <<N_VCHAIP>>) \/ TestWords(raw, <<<<"O", "p", "e", "n", "I", "D", "4", "V", "C", " ", "H", "A", "I", "P">>>>) THEN N_VCHAIP
  ELSE IF TestWords(raw, <<N_VC>>) THEN N_VC
  ELSE IF TestSpaced(raw, <<W_OpenID, W_Connect>>) THEN N_Connect
  ELSE IF TestWords(raw, <<N_SDJWT, <<"V", "C">>>>) THEN N_SDJWTVC
  ELSE IF TestWords(raw, <<N_SDJWT>>) THEN N_SDJWT
  ELSE IF toUpperCase(raw) = N_HAIP THEN N_HAIP
  ELSE raw

\* let spec = match[0].trim() and the rules that normalize it; a match of one
\* of the patterns begins and ends with a character that is not white space
OidfName(raw) ==
  IF TestWords(raw, <<N_VP>>) THEN N_VP
  ELSE IF TestWords(raw, <<N_VCI>>) THEN N_VCI
  ELSE IF TestWords(raw, <<N_VCHAIP>>) \/ TestWords(raw, <<<<"O", "p", "e", "n", "I", "D", "4", "V", "C", " ", "H", "A", "I", "P">>>>) THEN N_VCHAIP
  ELSE IF TestWords(raw, <<N_VC>>) THEN N_VC
  ELSE IF TestSpaced(raw, <<W_OpenID, W_for, W_Verifiable, W_Presentation>>)
          \/ TestSpaced(raw, <<W_OpenID, W_Verifiable, W_Presentation>>) THEN N_VP
  ELSE IF TestSpaced(raw, <<W_OpenID, W_for, W_Verifiable, W_Credential>>)
          \/ TestSpaced(raw, <<W_OpenID, W_Verifiable, W_Credential>>) THEN N_VCI
  ELSE IF TestSpaced(raw, <<W_OpenID, W_Connect>>) THEN N_Connect
  ELSE IF TestWords(raw, <<N_SDJWT, <<"V", "C">>>>) THEN N_SDJWTVC
  ELSE IF TestWords(raw, <<N_SDJWT>>) THEN N_SDJWT
  ELSE IF toUpperCase(raw) = N_HAIP THEN N_HAIP
  ELSE raw

\* texts the patterns with an optional version match, and those of /SD-JWT(?:\s+VC)?/gi
VersionedMatches ==
  {<<"O", "p", "e", "n", "I", "D", "4", "V", "P">>,
   <<"O", "p", "e", "n", "I", "D", "4", "V", "C", "I">>,
   <<"O", "p", "e", "n", "I", "D", "4", "V", "C">>,
   <<"O", "p", "e", "n", "I", "D", "4", "V", "C", "-", "H", "A", "I", "P">>,
   <<"O", "p", "e", "n", "I", "D", " ", "C", "o", "n", "n", "e", "c", "t">>,
   <<"O", "p", "e", "n", "I", "D", " ", " ", "C", "o", "n", "n", "e", "c", "t">>,
   <<"O", "p", "e", "n", "I", "D", " ", "C", "o", "n", "n", "e", "c", "t", " ", "C", "o", "r", "e">>,
   <<"O", "p", "e", "n", "I", "D", " ", "f", "o", "r", " ", "V", "e", "r", "i", "f", "i", "a", "b", "l", "e", " ", "P", "r", "e", "s", "e", "n", "t", "a", "t", "i", "o", "n">>,
   <<"O", "p", "e", "n", "I", "D", " ", "f", "o", "r", " ", "V", "e", "r", "i", "f", "i", "a", "b", "l", "e", " ", "P", "r", "e", "s", "e", "n", "t", "a", "t", "i", "o", "n", "s">>,
   <<"O", "p", "e", "n", "I", "D", " ", "f", "o", "r", " ", "V", "e", "r", "i", "f", "i", "a", "b", "l", "e", " ", "C", "r", "e", "d", "e", "n", "t", "i", "a", "l">>,
   <<"O", "p", "e", "n", "I", "D", " ", "f", "o", "r", " ", "V", "e", "r", "i", "f", "i", "a", "b", "l", "e", " ", "C", "r", "e", "d", "e", "n", "t", "i", "a", "l", "s">>}

SdJwtMatches ==
  {<<"S", "D", "-", "J", "W", "T">>, <<"S", "D", "-", "J", "W", "T", " ", "V", "C">>, <<"S", "D", "-", "J", "W", "T", " ", " ", "V", "C">>}

S_Version == <<" ", "1", ".", "0">>

\* the same text as written, in lower case and in upper case (flag /i)
CaseVariants(S) == S \cup {toLowerCase(b) : b \in S} \cup {toUpperCase(b) : b \in S}

\* match[0] of the patterns of REF_PATTERNS.oidf; /\bHAIP\b/g has no flag /i
RawMatches ==
  {b \o v : b \in CaseVariants(VersionedMatches), v \in {<<>>, S_Version}}
    \cup CaseVariants(SdJwtMatches) \cup {N_HAIP}

\* either a graph is read from references.json, or a match of an OIDF pattern is
\* followed from the extractor to the frontier
FrontierInit ==
  /\ NoCrawl
  /\ NoAssembly
  /\ NoNaming
  /\ NoPortal
  /\ VERBOSE \in BOOLEAN
  /\ missingFound = [oidf |-> <<>>, ietf |-> <<>>]
  /\ consoleLog = <<>>
  /\ emitted = Null
  /\ \/ frontierPc = "Read" /\ graphNodes \in NodeLists /\ rawMatch = Null
     \/ frontierPc = "Matching" /\ graphNodes = <<>> /\ rawMatch \in RawMatches

\* refs.oidf.add(spec), and the node ensureExternalNode makes for it in the
\* graph that is written to references.json
EmitOidf ==
  /\ frontierPc = "Matching"
  /\ emitted' = OidfName(rawMatch)
  /\ graphNodes' = <<NewNode(OidfName(rawMatch), "oidf", Null, FALSE)>>
  /\ frontierPc' = "Read"
  /\ UNCHANGED <<crawl, assembly, naming, portal, VERBOSE, missingFound, consoleLog, rawMatch>>

\* const missingSpecs = findMissingSpecs(refsData.graph)
FindMissing ==
  /\ frontierPc = "Read"
  /\ missingFound' = findMissingSpecs([nodes |-> graphNodes])
  /\ consoleLog' = ReportsFrom(graphNodes, VERBOSE)
  /\ frontierPc' = "Computed"
  /\ UNCHANGED <<crawl, assembly, naming, portal, graphNodes, VERBOSE, rawMatch, emitted>>

FrontierNext ==
  \/ EmitOidf
  \/ FindMissing

FrontierSpec == FrontierInit /\ [][FrontierNext]_vars

\* the identifiers of the frontier findMissingSpecs returned
MissingIds ==
  {missingFound.oidf[k].id : k \in 1..Len(missingFound.oidf)}
    \cup {missingFound.ietf[k].id : k \in 1..Len(missingFound.ietf)}

\* a node of a domain that is acquired, without content, whose identifier
\* gives no URL (OIDF) or no RFC number (IETF)
Unresolvable(node) ==
  /\ node.path = Null
  /\ \/ node.source = "oidf" /\ findOidfUrl(node.id) = Null
     \/ node.source = "ietf" /\ RfcDigits(node.id) = Null

UnresolvableNodes == {k \in 1..Len(graphNodes) : Unresolvable(graphNodes[k])}

\* no unresolvable node is in the frontier
UnresolvableExcluded ==
  frontierPc = "Computed" =>
    \A k \in UnresolvableNodes : graphNodes[k].id \notin MissingIds

\* every unresolvable node has been reported
UnresolvableReported ==
  frontierPc = "Computed" =>
    \A k \in UnresolvableNodes : graphNodes[k].id \in Range(consoleLog)

UnresolvableReportedWhenVerbose ==
  (frontierPc = "Computed" /\ VERBOSE) =>
    \A k \in UnresolvableNodes :
      graphNodes[k].source = "oidf" => graphNodes[k].id \in Range(consoleLog)

\* ------------------------------------------------------------------------
\* Further properties of the extractor: the scan of the whole text
\* ------------------------------------------------------------------------

\* a references heading matched in the text: one of the two regions holds an
\* identifier (a region is null when its heading did not match)
RegionFound(sec) ==
  \E t \in AllRefKeys : sec.normative[t] # {} \/ sec.informative[t] # {}

\* the identifiers of one domain found inside the two regions of a text
InRegions(sec, t) == sec.normative[t] \cup sec.informative[t]

\* the whole text was scanned: !hasStructuredRefs
FallbackApplied(sec) == sec.normative["etsi"] = {} /\ sec.informative["etsi"] = {}

\* C31: the "all" arrays of a document in whose text a references region was
\* found hold only identifiers found inside the regions, also when the regions
\* hold no primary-standard identifier
C31_FallbackOnlyWithoutRegions ==
  \A k \in 1..Len(graph.documents) :
    RegionFound(TextOfDocument(graph.documents[k])) =>
      \A t \in Range(RefTypes) :
        Range(graph.documents[k].references.all[t])
          \subseteq InRegions(TextOfDocument(graph.documents[k]), t)

\* without a region the whole text is scanned
FallbackWithoutRegions ==
  \A k \in 1..Len(graph.documents) :
    ~RegionFound(TextOfDocument(graph.documents[k])) =>
      \A t \in Range(RefTypes) :
        Range(graph.documents[k].references.all[t])
          = TextOfDocument(graph.documents[k]).whole[t]

\* C32: when the whole text of a document was scanned, the identifiers of the
\* external domains in its "all" arrays are those found inside the regions;
\* the scan adds primary-standard identifiers only
C32_FallbackAddsPrimaryOnly ==
  \A k \in 1..Len(graph.documents) :
    FallbackApplied(TextOfDocument(graph.documents[k])) =>
      \A t \in Range(externalTypes) :
        Range(graph.documents[k].references.all[t])
          \subseteq InRegions(TextOfDocument(graph.documents[k]), t)

\* ------------------------------------------------------------------------
\* Further properties of the derivation of canonical identifiers
\* ------------------------------------------------------------------------

\* the digit group of the name of the stored file
DigitGroupOf(name) == Slice(name, 4, 3 + SpanDigits(name, 4))

\* the identifier with the whole digit group unsplit: `${type} ${num}`
UnsplitId(name) == toUpperCase(Slice(name, 1, 2)) \o <<" ">> \o DigitGroupOf(name)

\* C33: the identifier under which the document of a stored file is filed,
\* when the digit group of the name has a length other than 6, 8 or 9, is not
\* null and is the type followed by the whole digit group
C33_OtherLengthsPassThrough ==
  ("name" \in derived /\ DigitGroup \notin {6, 8, 9}) =>
    /\ idByName # Null
    /\ idByName = UnsplitId(storedName)

\* what filenameToDocId alone returns for such a name is the unsplit identifier
FilenameToDocIdPassesThrough ==
  DigitGroup \notin {6, 8, 9} => filenameToDocId(storedName) = UnsplitId(storedName)

\* "TYPE NNN NNN[-P]": the canonical identifier of a document
CanonicalId(type, pair, part) ==
  type \o <<" ">> \o pair[1] \o <<" ">> \o pair[2]
       \o (IF part = 0 THEN <<>> ELSE <<"-">> \o String(part))

\* every spelling of a citation of a document gives its canonical identifier
SpellingsAgree ==
  "citation" \in derived =>
    \A type \in DocTypes, pair \in NumberPairs, part \in 0..MaxPart, sp \in Spellings :
      citation = CitationOf(type, pair, part, sp) =>
        idByCitation = CanonicalId(type, pair, part)

\* the identifiers derived are left as they are by normalizeDocId
Idempotent ==
  /\ ("citation" \in derived /\ idByCitation # Null) => normalizeDocId(idByCitation) = idByCitation
  /\ ("name" \in derived /\ idByName # Null) => normalizeDocId(idByName) = idByName

\* a text without two groups of three digits gives null
NoMatchIsNull == ("name" \in derived /\ DigitGroup < 6) => idByName = Null

\* C34: all spellings of a citation of a document (letter case, white space
\* between the groups, leading zeros of the part, the prefix ETSI) normalize to
\* the one string "TYPE NNN NNN[-P]", normalizing that string again returns it,
\* and input that matches no identifier gives null
C34_SpellingsNormalizeToOne == SpellingsAgree /\ Idempotent /\ NoMatchIsNull

\* a citation with a leading zero in its part has been normalized, and a name
\* that matches no identifier has given null
C34_Witness ==
  /\ derived = {"name", "citation"}
  /\ citation = CitationOf(S_TS, <<<<"1", "1", "9">>, <<"1", "0", "2">>>>, 5, "zero")
  /\ idByCitation = CanonicalId(S_TS, <<<<"1", "1", "9">>, <<"1", "0", "2">>>>, 5)
  /\ DigitGroup < 6
  /\ idByName = Null

\* ------------------------------------------------------------------------
\* Further properties of the crawl controller: the identifiers of RFCs
\* ------------------------------------------------------------------------

\* the nodes of the RFC domain in the graph as last written
RfcNodes == NodesOfSource({"ietf"})

\* the number of the RFC a node stands for
RfcNumberOf(node) == parseInt(RfcDigits(node.id))

\* one node for each RFC
OneNodePerRfc ==
  \A i, j \in RfcNodes :
    RfcNumberOf(refsData.nodes[i]) = RfcNumberOf(refsData.nodes[j]) => i = j

\* at most one frontier item for each RFC
OneItemPerRfc ==
  \A i, j \in 1..Len(missingSpecs.ietf) :
    missingSpecs.ietf[i].number = missingSpecs.ietf[j].number => i = j

\* the identifier of an RFC node has no leading zero
NoLeadingZero ==
  \A i \in RfcNodes : refsData.nodes[i].id = S_RFC \o <<" ">> \o String(RfcNumberOf(refsData.nodes[i]))

\* C35: the identifier of an RFC is "RFC <digits>" without leading zeros, so
\* citations of one RFC that differ in leading zeros give one identifier, one
\* node of the graph and at most one frontier item
C35_RfcCanonical == NoLeadingZero /\ OneNodePerRfc /\ OneItemPerRfc

\* ------------------------------------------------------------------------
\* Further properties of the frontier: the identifiers of the OIDF patterns
\* ------------------------------------------------------------------------

\* the match has been given its identifier
Emitted == rawMatch # Null /\ frontierPc \in {"Read", "Computed"}

\* C36: the identifier given to a match of an OIDF pattern is one of the eight
\* canonical names, findOidfUrl gives a URL for it, and the frontier computed
\* from the graph holds it
C36_EmittedNamesResolve ==
  /\ Emitted => (emitted \in CanonicalOidfNames /\ findOidfUrl(emitted) # Null)
  /\ (Emitted /\ frontierPc = "Computed") =>
       (UnresolvableNodes = {} /\ emitted \in MissingIds)

\* the long name of a profile, in lower case and with a version, has been
\* followed to the frontier
C36_Witness ==
  /\ frontierPc = "Computed"
  /\ rawMatch = toLowerCase(<<"O", "p", "e", "n", "I", "D", " ", "f", "o", "r", " ", "V", "e", "r", "i", "f", "i", "a", "b", "l", "e", " ", "C", "r", "e", "d", "e", "n", "t", "i", "a", "l", "s">>) \o S_Version
  /\ emitted = N_VCI
  /\ emitted \in MissingIds

\* ------------------------------------------------------------------------
\* Further properties of the crawl controller: the extraction passes
\* ------------------------------------------------------------------------

\* the run has completed: main() has returned
Completed == pc = "Done"

\* no file is written once the loop has ended
NoAcquisitionAfterLoop == (pc \in {"FinalExtract", "Done"}) => files' = files

\* C37: a run that completes has made one extraction pass more than it has
\* made iterations of the loop, the graph it ends with is the graph of the
\* files as they are at the end, and no file is written after the loop
C37_FinalExtractionAlways ==
  /\ [](Completed => (passes = depth + 1 /\ refsData = runExtractReferences))
  /\ [][NoAcquisitionAfterLoop]_vars

\* a run has completed after two iterations in which a file was written
C37_Witness ==
  /\ Completed
  /\ depth = 2
  /\ passes = 3
  /\ Acquired >= 1

\* ------------------------------------------------------------------------
\* Further properties of the crawl controller: the failure counter
\* ------------------------------------------------------------------------

\* this step is the third attempt of an item, and it fails
ThirdAttemptFails ==
  pc = "AcquiringIetf" /\ attempt = 3 /\ ~success /\ attempt' = 4 /\ ~success'

\* the counter is 0 when an RFC pass begins
CountStartsAtZero == (pc # "AcquiringIetf" /\ pc' = "AcquiringIetf") => failCount' = 0

\* within the pass the counter goes up by one with the third failed attempt
\* of an item, and stays as it is in every other step
CountsFailedItems ==
  pc = "AcquiringIetf" =>
    failCount' = IF ThirdAttemptFails THEN failCount + 1 ELSE failCount

MaxScraped == 2

\* the work item identifiers of the scraped items: digits, as the scraper
\* takes them from the comment of the first cell
WorkItemIds == {<<"9">>, <<"1", "0">>}

St_Drafting == <<"\t", "D", "r", "a", "f", "t", "i", "n", "g", " ", "S", "t", "a", "g", "e", "\n">>
St_Approval == <<"W", "G", " ", "a", "p", "p", "r", "o", "v", "a", "l">>
St_Publication == <<"P", "u", "b", "l", "i", "c", "a", "t", "i", "o", "n">>
St_Unknown == <<"U", "n", "k", "n", "o", "w", "n">>

Stages == {St_Drafting, St_Approval, St_Publication, <<>>}

\* the items the scraper can write; the ETSI number of a row can be empty
ScrapedItems ==
  {[etsiNumber |-> n, workItemId |-> w, stage |-> st] :
     n \in {<<>>, Id_A, Id_B}, w \in WorkItemIds, st \in Stages}

\* the position of the entry of key in the Map, 0 when it has none
PositionOfKey(m, key) ==
  IF \E k \in 1..Len(m) : m[k].etsiNumber = key
  THEN CHOOSE k \in 1..Len(m) : m[k].etsiNumber = key
  ELSE 0

\* a variant of Dedupe that keeps the first item of each ETSI number
RECURSIVE Dedupe_KeepsFirst(_, _)
Dedupe_KeepsFirst(items, m) ==
  IF items = <<>> THEN m
  ELSE IF Head(items).etsiNumber = <<>> THEN Dedupe_KeepsFirst(Tail(items), m)
  ELSE IF PositionOfKey(m, Head(items).etsiNumber) = 0
  THEN Dedupe_KeepsFirst(Tail(items), Append(m, Head(items)))
  ELSE Dedupe_KeepsFirst(Tail(items), m)

\* the loop over data that fills byEtsiNumber; set() of a key that is there
\* keeps the place of the key
RECURSIVE Dedupe(_, _)
Dedupe(items, m) ==
  IF items = <<>> THEN m
  ELSE IF Head(items).etsiNumber = <<>> THEN Dedupe(Tail(items), m)
  ELSE IF PositionOfKey(m, Head(items).etsiNumber) = 0
  THEN Dedupe(Tail(items), Append(m, Head(items)))
  ELSE IF parseInt(Head(items).workItemId)
            > parseInt(m[PositionOfKey(m, Head(items).etsiNumber)].workItemId)
  THEN Dedupe(Tail(items), [m EXCEPT ![PositionOfKey(m, Head(items).etsiNumber)] = Head(items)])
  ELSE Dedupe(Tail(items), m)

IsBlank(c) == c \in {" ", "\t", "\n"}

\* s.replace(/[\n\t]+/g, ' ')
RECURSIVE TabsToSpace(_)
TabsToSpace(s) ==
  IF s = <<>> THEN <<>>
  ELSE IF Head(s) \in {"\t", "\n"}
  THEN IF Len(s) > 1 /\ s[2] \in {"\t", "\n"} THEN TabsToSpace(Tail(s))
       ELSE <<" ">> \o TabsToSpace(Tail(s))
  ELSE <<Head(s)>> \o TabsToSpace(Tail(s))

\* s.trim()
RECURSIVE trim(_)
trim(s) ==
  IF s = <<>> THEN <<>>
  ELSE IF IsBlank(Head(s)) THEN trim(Tail(s))
  ELSE IF IsBlank(s[Len(s)]) THEN trim(SubSeq(s, 1, Len(s) - 1))
  ELSE s

\* item.stage?.replace(/[\n\t]+/g, ' ').trim() || 'Unknown'
cleanStage(stage) ==
  IF trim(TabsToSpace(stage)) = <<>> THEN St_Unknown ELSE trim(TabsToSpace(stage))

\* s.includes(lit)
Includes(s, lit) ==
  \E p \in 1..Len(s) : p + Len(lit) - 1 <= Len(s) /\ SubSeq(s, p, p + Len(lit) - 1) = lit

\* item.cleanStage.includes('Drafting') || item.cleanStage.includes('approval')
IsActiveItem(item) ==
  \/ Includes(cleanStage(item.stage), <<"D", "r", "a", "f", "t", "i", "n", "g">>)
  \/ Includes(cleanStage(item.stage), <<"a", "p", "p", "r", "o", "v", "a", "l">>)

IsPublishedItem(item) == ~IsActiveItem(item)

formatItem(item) == [etsiNumber |-> item.etsiNumber, stage |-> cleanStage(item.stage)]

FormatAll(items) == [k \in 1..Len(items) |-> formatItem(items[k])]

\* const summary; the items carry no status date, so the sort of activeWork
\* (stable, all keys '9999') leaves them in the order of the Map
SummaryOf(scraped, kept) ==
  [statistics |-> [totalScraped |-> Len(scraped),
                   uniqueDocuments |-> Len(kept),
                   activeWorkItems |-> Len(SelectSeq(kept, IsActiveItem)),
                   publishedDocuments |-> Len(SelectSeq(kept, IsPublishedItem))],
   activeWorkItems |-> FormatAll(SelectSeq(kept, IsActiveItem)),
   publishedDocuments |-> FormatAll(SelectSeq(kept, IsPublishedItem))]

\* the lists of at most n items of a set
ListsOf(S, n) == UNION {[1..k -> S] : k \in 0..n}

\* work_items.json has been written by the scraper
ScrapedInit ==
  /\ data \in ListsOf(ScrapedItems, MaxScraped)
  /\ byEtsiNumber = <<>>
  /\ summary = NoSummary
  /\ limit = Null
  /\ publishedOnly = FALSE
  /\ itemsToProcess = <<>>
  /\ cursor = 0
  /\ results = NoResults
  /\ portalPc = "Scraped"

\* analyzeWorkItems, up to the writing of esi_overview.json
AnalyzeWorkItems ==
  /\ portalPc = "Scraped"
  /\ byEtsiNumber' = Dedupe(data, <<>>)
  /\ summary' = SummaryOf(data, Dedupe(data, <<>>))
  /\ portalPc' = "Analyzed"
  /\ UNCHANGED <<crawl, assembly, naming, frontier, data, limit, publishedOnly, itemsToProcess,
                 cursor, results>>

\* the largest number of items in each list of the overview that is read
MaxListed == 1

\* the values of --limit=; the variable limit is <<>> for null and <<n>> for n
LimitValues == {0, 1}

St_DraftingStage == <<"D", "r", "a", "f", "t", "i", "n", "g", " ", "S", "t", "a", "g", "e">>

\* the items of the two lists of esi_overview.json as downloadLatestSpecs reads
\* it: it filters the items again, whatever has written the file
ListedActive == {[etsiNumber |-> n, stage |-> St_DraftingStage] : n \in {<<>>, Id_A, Id_B}}

ListedPublished == {[etsiNumber |-> n, stage |-> St_Publication] : n \in {<<>>, Id_A, Id_B}}

OverviewOf(active, published) ==
  [statistics |-> [totalScraped |-> Len(active) + Len(published),
                   uniqueDocuments |-> Len(active) + Len(published),
                   activeWorkItems |-> Len(active),
                   publishedDocuments |-> Len(published)],
   activeWorkItems |-> active, publishedDocuments |-> published]

\* const allItems = publishedOnly ? publishedItems : [...publishedItems, ...activeItems]
allItems(overview, only) ==
  IF only THEN overview.publishedDocuments
  ELSE overview.publishedDocuments \o overview.activeWorkItems

\* allItems.filter(...) with the Set seen
RECURSIVE FilterSeen(_, _)
FilterSeen(items, seen) ==
  IF items = <<>> THEN <<>>
  ELSE IF Head(items).etsiNumber = <<>> \/ Head(items).etsiNumber \in seen
  THEN FilterSeen(Tail(items), seen)
  ELSE <<Head(items)>> \o FilterSeen(Tail(items), seen \cup {Head(items).etsiNumber})

uniqueItems(overview, only) == FilterSeen(allItems(overview, only), {})

\* limit ? ... : ...; null and 0 are falsy
Truthy(lim) == lim # <<>> /\ lim[1] # 0

\* const itemsToProcess = limit ? uniqueItems.slice(0, limit) : uniqueItems
Limited(unique, lim) ==
  IF Truthy(lim)
  THEN SubSeq(unique, 1, IF lim[1] < Len(unique) THEN lim[1] ELSE Len(unique))
  ELSE unique

\* esi_overview.json is there and the command line has been read
ReadyInit ==
  /\ data = <<>>
  /\ byEtsiNumber = <<>>
  /\ \E active \in ListsOf(ListedActive, MaxListed), published \in ListsOf(ListedPublished, MaxListed) :
       summary = OverviewOf(active, published)
  /\ limit \in {<<>>} \cup {<<n>> : n \in LimitValues}
  /\ publishedOnly \in BOOLEAN
  /\ itemsToProcess = <<>>
  /\ cursor = 0
  /\ results = NoResults
  /\ portalPc = "Ready"

PortalInit ==
  /\ NoCrawl
  /\ NoAssembly
  /\ NoNaming
  /\ NoFrontier
  /\ ScrapedInit \/ ReadyInit

\* if (!loggedIn) process.exit(1)
LoginFails ==
  /\ portalPc = "Ready"
  /\ portalPc' = "Exited"
  /\ UNCHANGED <<crawl, assembly, naming, frontier, data, byEtsiNumber, summary, limit,
                 publishedOnly, itemsToProcess, cursor, results>>

\* the login succeeds; results, uniqueItems and itemsToProcess are made
StartDownload ==
  /\ portalPc = "Ready"
  /\ itemsToProcess' = Limited(uniqueItems(summary, publishedOnly), limit)
  /\ cursor' = 0
  /\ results' = NoResults
  /\ portalPc' = "Downloading"
  /\ UNCHANGED <<crawl, assembly, naming, frontier, data, byEtsiNumber, summary, limit,
                 publishedOnly>>

\* the loop is at an item
AtItem == portalPc = "Downloading" /\ cursor < Len(itemsToProcess)

\* results.<list>.push({ etsiNumber: item.etsiNumber, ... }) and i++
Record(list, reason) ==
  /\ results' = [results EXCEPT ![list] =
                   Append(@, [etsiNumber |-> itemsToProcess[cursor + 1].etsiNumber,
                              reason |-> reason])]
  /\ cursor' = cursor + 1
  /\ UNCHANGED <<crawl, assembly, naming, frontier, data, byEtsiNumber, summary, limit,
                 publishedOnly, itemsToProcess, portalPc>>

\* a link is found and downloadFile returns the name of the file
ItemDownloaded == AtItem /\ Record("success", "Downloaded")

\* a link is found and downloadFile returns nothing
ItemDownloadFailed == AtItem /\ Record("failed", "Download failed")

\* fetchDownloadLink returns no link
ItemNoDownload == AtItem /\ Record("noDownload", "No download link found")

\* fetchDownloadLink or downloadFile throws: the catch block of the item
ItemThrows == AtItem /\ Record("failed", "error.message")

\* after the loop: _download_results.json is written
SaveResults ==
  /\ portalPc = "Downloading"
  /\ cursor = Len(itemsToProcess)
  /\ portalPc' = "Saved"
  /\ UNCHANGED <<crawl, assembly, naming, frontier, data, byEtsiNumber, summary, limit,
                 publishedOnly, itemsToProcess, cursor, results>>

PortalNext ==
  \/ AnalyzeWorkItems
  \/ LoginFails
  \/ StartDownload
  \/ ItemDownloaded
  \/ ItemDownloadFailed
  \/ ItemNoDownload
  \/ ItemThrows
  \/ SaveResults

PortalSpec == PortalInit /\ [][PortalNext]_vars

\* ------------------------------------------------------------------------
\* Properties of analyzeWorkItems
\* ------------------------------------------------------------------------

Analyzed == portalPc = "Analyzed"

\* the scraped items with a given ETSI number
ScrapedWith(n) == {k \in 1..Len(data) : data[k].etsiNumber = n}

\* the non-empty ETSI numbers of the scraped items
ScrapedNumbers == {data[k].etsiNumber : k \in 1..Len(data)} \ {<<>>}

\* the entries of a list for a given ETSI number
EntriesWith(list, n) == {k \in 1..Len(list) : list[k].etsiNumber = n}

\* one item is kept for each ETSI number, and it is a scraped item of that
\* number with the greatest work item identifier
KeepsGreatest ==
  /\ {byEtsiNumber[k].etsiNumber : k \in 1..Len(byEtsiNumber)} = ScrapedNumbers
  /\ \A n \in ScrapedNumbers :
       /\ Cardinality(EntriesWith(byEtsiNumber, n)) = 1
       /\ \A k \in EntriesWith(byEtsiNumber, n) :
            /\ byEtsiNumber[k] \in Range(data)
            /\ \A j \in ScrapedWith(n) :
                 parseInt(byEtsiNumber[k].workItemId) >= parseInt(data[j].workItemId)

\* every kept item is in one of the two lists, and in it once
InOneList ==
  \A n \in ScrapedNumbers :
    Cardinality(EntriesWith(summary.activeWorkItems, n))
      + Cardinality(EntriesWith(summary.publishedDocuments, n)) = 1

CountsAddUp ==
  /\ summary.statistics.uniqueDocuments = Cardinality(ScrapedNumbers)
  /\ summary.statistics.activeWorkItems = Len(summary.activeWorkItems)
  /\ summary.statistics.publishedDocuments = Len(summary.publishedDocuments)
  /\ summary.statistics.uniqueDocuments
       = summary.statistics.activeWorkItems + summary.statistics.publishedDocuments

\* C39: analyzeWorkItems keeps one item for each non-empty ETSI number, the
\* one with the greatest numeric workItemId among the scraped items of that
\* number, puts every kept item in exactly one of the active and the published
\* list, and uniqueDocuments = activeWorkItems + publishedDocuments
C39_OnePerNumberPartitioned == Analyzed => (KeepsGreatest /\ InOneList /\ CountsAddUp)

\* two items of one number were scraped, the one with identifier 9 before the
\* one with identifier 10; the one with 10 is kept, and it is an active item
C39_Witness ==
  /\ Analyzed
  /\ Len(data) = 2
  /\ data[1].etsiNumber = Id_A /\ data[1].workItemId = <<"9">>
  /\ data[2].etsiNumber = Id_A /\ data[2].workItemId = <<"1", "0">>
  /\ Len(byEtsiNumber) = 1
  /\ byEtsiNumber[1] = data[2]
  /\ summary.statistics.activeWorkItems = 1

\* ------------------------------------------------------------------------
\* Properties of downloadLatestSpecs
\* ------------------------------------------------------------------------

\* the loop over the items has begun
Started == portalPc \in {"Downloading", "Saved"}

\* the entries of the three lists of results
AllRecorded == results.success \o results.failed \o results.noDownload

\* the ETSI numbers of the items that have been processed
ProcessedNumbers == {itemsToProcess[k].etsiNumber : k \in 1..cursor}

\* the first item of allItems with a given ETSI number
FirstWith(n) ==
  allItems(summary, publishedOnly)[
    CHOOSE k \in EntriesWith(allItems(summary, publishedOnly), n) :
      \A j \in EntriesWith(allItems(summary, publishedOnly), n) : k <= j]

\* every item to process has an ETSI number that no other one has, and is the
\* first item of that number, the published ones before the active ones
EachNumberOnce ==
  Started =>
    \A k \in 1..Len(itemsToProcess) :
      /\ itemsToProcess[k].etsiNumber # <<>>
      /\ EntriesWith(itemsToProcess, itemsToProcess[k].etsiNumber) = {k}
      /\ itemsToProcess[k] = FirstWith(itemsToProcess[k].etsiNumber)

\* with a limit, no more items than the limit
AtMostLimit == (Started /\ limit # <<>>) => Len(itemsToProcess) <= limit[1]

\* the same, for the limits that are not 0
AtMostPositiveLimit ==
  (Started /\ limit # <<>> /\ limit[1] # 0) => Len(itemsToProcess) <= limit[1]

\* every processed item has one entry, in one of the three lists
RecordedOnce ==
  Started =>
    /\ Len(AllRecorded) = cursor
    /\ \A n \in ProcessedNumbers : Cardinality(EntriesWith(AllRecorded, n)) = 1

\* an item that ends with an error is recorded, and the loop goes on
ErrorIsContained ==
  (AtItem /\ Len(results'.failed) > Len(results.failed)) =>
    (portalPc' = "Downloading" /\ cursor' = cursor + 1)

DownloadEachOnceForPositiveLimit ==
  /\ [](EachNumberOnce /\ AtMostPositiveLimit /\ RecordedOnce)
  /\ [][ErrorIsContained]_vars
====
